---- MODULE Spec2Model ----
(***************************************************************************)
(* Employee identity and access manager: the storage repository, the       *)
(* credential service, the verification routes, the employee routes and    *)
(* the authentication middleware of the backend (full profile).            *)
(*                                                                         *)
(* Stored items and signed credentials are JavaScript objects: they are    *)
(* modelled as functions from field names to values, so that a field can   *)
(* be missing.  A table is a function from the keys that exist to items.   *)
(* Time is counted in whole days; of a credential's two dates the model    *)
(* keeps the expirationDate, computed from the clock at issuance.          *)
(***************************************************************************)
EXTENDS Integers, Sequences, FiniteSets, TLC

VARIABLES
    employees,      \* employees table: employeeId -> item
    credentials,    \* credentials table: credentialId -> item
    accessLogs,     \* access_logs table, in the order of the writes
    chainCfg,       \* CONTRACT_ADDRESS is set (blockchainService.contract /= null)
    issued,         \* the signed credentials handed out so far, in order
    now,            \* the clock, new Date()
    requests,       \* the POST /employees requests being served, step by step
    registry,       \* storage of the deployed EmployeeIdentityRegistry contract
    blockTimestamp, \* block.timestamp of the block being mined
    resp            \* the answer of the last operation

vars == <<employees, credentials, accessLogs, chainCfg, issued, now, requests, registry,
          blockTimestamp, resp>>

----------------------------------------------------------------------------
(* Bounds of the model *)

MaxCredentials == 2
MaxTime == 1
MaxLogs == 2
MaxOffboardCredentials == 3

EmployeeIds == {"e1", "e2"}
\* uuidv4() of the k-th stored credential
UuidPool == <<"c1", "c2", "c3", "c4", "c5", "c6">>
Uuids == {UuidPool[k] : k \in 1..MaxCredentials}
\* an identifier no credential was ever stored under
UnknownCredentialId == "c-unknown"
Times == 0..MaxTime

----------------------------------------------------------------------------
(* JavaScript values *)

\* `undefined`: a missing property, a missing argument
Undefined == "undefined"

\* obj[field], as a set: empty when the property is missing
Prop(obj, field) == IF field \in DOMAIN obj THEN {obj[field]} ELSE {}

\* {...base, ...over}: the later properties win
Spread(base, over) == over @@ base

\* the empty table
EmptyTable == << >>

----------------------------------------------------------------------------
(* Expiration, part_007 (credentialService.js) *)

TemporaryDays == 90
ContractDays == 365
PermanentDays == 1825

ContractTypes == {"temporary", "contract", "permanent", Undefined, "intern"}

calculateExpirationDateMutant(contractType, t) ==
    CASE contractType = "temporary" -> t + TemporaryDays
      [] contractType \in {"contract", "permanent"} -> t + ContractDays
      [] OTHER                      -> t + PermanentDays

\* calculateExpirationDate(contractType = 'permanent')
calculateExpirationDate(contractType, t) ==
    CASE contractType = "temporary" -> t + TemporaryDays
      [] contractType = "contract"  -> t + ContractDays
      [] OTHER                      -> t + PermanentDays

isCredentialExpiredMutant(credential, t) ==
    FALSE

\* isCredentialExpired(credential): new Date(expirationDate) < new Date()
isCredentialExpired(credential, t) ==
    IF Prop(credential, "expirationDate") = {} THEN FALSE
    ELSE credential.expirationDate < t

----------------------------------------------------------------------------
(* Storage repository, dynamoService.js.  Every operation sends one        *)
(* command; a command the store rejects makes the operation throw.  The    *)
(* updatedAt stamp, which nothing reads, is left out.                       *)

\* what an operation hands back: it threw, or it returned `value` and left
\* the table as `table`
Threw(tbl) == [threw |-> TRUE, table |-> tbl, value |-> << >>]
Returned(tbl, v) == [threw |-> FALSE, table |-> tbl, value |-> v]

\* a key attribute must be a value: a command whose key is undefined is
\* rejected before it reaches the table
ValidKey(id) == id /= Undefined

\* PutCommand
PutItem(tbl, key, item) == (key :> item) @@ tbl

\* UpdateCommand with a SET expression: edits the item, or adds a new item
\* holding the key and the SET attributes when there is none
UpdateItem(tbl, key, keyName, sets) ==
    LET old == IF key \in DOMAIN tbl THEN tbl[key] ELSE (keyName :> key)
    IN  PutItem(tbl, key, Spread(old, sets))

createEmployeeMutant(tbl, employeeData, t, fail) ==
    LET employee == Spread(employeeData, [createdAt |-> t, status |-> "active"])
    IN  IF fail THEN Threw(tbl)
        ELSE Returned(PutItem(tbl, employee.employeeId, employee), employee)

\* createEmployee(employeeData): Put with attribute_not_exists(employeeId)
createEmployee(tbl, employeeData, t, fail) ==
    LET employee == Spread(employeeData, [createdAt |-> t, status |-> "active"])
    IN  IF fail \/ ~ValidKey(employee.employeeId) \/ employee.employeeId \in DOMAIN tbl
        THEN Threw(tbl)
        ELSE Returned(PutItem(tbl, employee.employeeId, employee), employee)

\* getEmployee(employeeId): result.Item, as a set (empty: undefined)
getEmployee(tbl, employeeId) == Prop(tbl, employeeId)

\* updateEmployee(employeeId, updates): result.Attributes (ALL_NEW)
updateEmployee(tbl, employeeId, updates, fail) ==
    IF fail \/ ~ValidKey(employeeId) THEN Threw(tbl)
    ELSE LET new == UpdateItem(tbl, employeeId, "employeeId", updates)
         IN  Returned(new, new[employeeId])

\* storeCredential(credentialData): unconditional Put
storeCredential(tbl, credentialData, fail) ==
    IF fail \/ ~ValidKey(credentialData.credentialId) THEN Threw(tbl)
    ELSE Returned(PutItem(tbl, credentialData.credentialId, credentialData), credentialData)

\* getCredential(credentialId): result.Item, as a set
getCredential(tbl, credentialId, fail) ==
    IF fail \/ ~ValidKey(credentialId) THEN Threw(tbl)
    ELSE Returned(tbl, Prop(tbl, credentialId))

\* getCredentialsByEmployee(employeeId): the items of EmployeeIdIndex
getCredentialsByEmployee(tbl, employeeId) ==
    {tbl[c] : c \in {d \in DOMAIN tbl : Prop(tbl[d], "employeeId") = {employeeId}}}

\* updateCredentialStatus(credentialId, status, reason = null)
updateCredentialStatus(tbl, credentialId, status, reason, fail) ==
    IF fail \/ ~ValidKey(credentialId) THEN Threw(tbl)
    ELSE LET sets == IF reason \in {Undefined, ""}
                     THEN [status |-> status]
                     ELSE [status |-> status, revocationReason |-> reason]
             new == UpdateItem(tbl, credentialId, "credentialId", sets)
         IN  Returned(new, new[credentialId])

\* logAccess(accessData): Put of a new log item
logAccess(logs, accessData) == Append(logs, accessData)

----------------------------------------------------------------------------
(* Blockchain anchoring service, blockchainService.js.  `outcome` is what  *)
(* the transaction does once sent: it is mined, or it fails (revert, RPC   *)
(* error, out of gas).  The result is TRUE when the call throws.           *)

ChainOutcomes == {"mined", "failed"}

\* anchorCredential(credentialId, credentialHash)
anchorCredential(cfg, credentialId, outcome) ==
    cfg /\ (credentialId = Undefined \/ outcome = "failed")

recordRevocationMutant(cfg, credentialId, outcome) ==
    ~cfg \/ credentialId = Undefined \/ outcome = "failed"

\* recordRevocation(credentialId, reason)
recordRevocation(cfg, credentialId, outcome) ==
    cfg /\ (credentialId = Undefined \/ outcome = "failed")

----------------------------------------------------------------------------
(* Credential service, part_007 (credentialService.js) *)

\* credential.id of a signed credential; neither issuing method sets one
CredentialIdOf(credential) ==
    IF Prop(credential, "id") = {} THEN Undefined ELSE credential.id

\* the credentialSubject issueEmployeeCredential builds from the employee
EmployeeSubject(employeeData) ==
    [f \in DOMAIN employeeData \cap {"employeeId", "accessLevel"} |-> employeeData[f]]
    @@ [permissions |-> IF "permissions" \in DOMAIN employeeData
                        THEN employeeData.permissions ELSE {}]

\* the credential issueEmployeeCredential has the agent sign; `proof` tells
\* two signed credentials apart
EmployeeCredential(employeeData, t, proof) ==
    [type |-> "EmployeeCredential",
     expirationDate |->
        calculateExpirationDate(IF "contractType" \in DOMAIN employeeData
                                THEN employeeData.contractType ELSE Undefined, t),
     credentialSubject |-> EmployeeSubject(employeeData),
     proof |-> proof]

\* the credential issueAccessCredential has the agent sign
AccessCredential(employeeId, accessData, t, proof) ==
    [type |-> "AccessCredential",
     expirationDate |-> accessData.validUntil,
     credentialSubject |-> [employeeId |-> employeeId,
                            accessType |-> accessData.accessType,
                            permissions |-> accessData.permissions],
     proof |-> proof]

\* storeCredentialMetadata(credential)
storeCredentialMetadata(tbl, credential, uuid, fail) ==
    storeCredential(tbl,
        [credentialId |-> IF CredentialIdOf(credential) /= Undefined
                          THEN CredentialIdOf(credential) ELSE uuid,
         type |-> credential.type,
         employeeId |-> credential.credentialSubject.employeeId,
         expirationDate |-> credential.expirationDate,
         status |-> "active"], fail)

anchorCredentialOnBlockchainMutant(cfg, credential, outcome) ==
    IF anchorCredential(cfg, CredentialIdOf(credential), outcome)
    THEN "thrown" ELSE "anchored"

\* anchorCredentialOnBlockchain(credential): a failure is logged, not thrown
anchorCredentialOnBlockchain(cfg, credential, outcome) ==
    IF anchorCredential(cfg, CredentialIdOf(credential), outcome)
    THEN "logged" ELSE "anchored"

\* steps of a request that can fail; with "anchor" the anchoring transaction
\* fails, and is mined otherwise
IssueFaults == {"sign", "store", "anchor"}

\* the tail shared by issueEmployeeCredential and issueAccessCredential:
\* sign, store the metadata, anchor
IssueSigned(tbl, credential, uuid, fault, cfg, outcome) ==
    IF fault = "sign" THEN Threw(tbl)
    ELSE LET stored == storeCredentialMetadata(tbl, credential, uuid, fault = "store")
             anchoring == anchorCredentialOnBlockchain(cfg, credential, outcome)
         IN  IF stored.threw THEN Threw(tbl)
             ELSE IF anchoring = "thrown" THEN Threw(stored.table)
             ELSE Returned(stored.table,
                           [credential |-> credential,
                            credentialId |-> stored.value.credentialId,
                            anchoring |-> anchoring])

\* issueEmployeeCredential(employeeData, issuerDID)
issueEmployeeCredential(tbl, employeeData, t, proof, uuid, fault, cfg, outcome) ==
    IssueSigned(tbl, EmployeeCredential(employeeData, t, proof), uuid, fault, cfg, outcome)

\* issueAccessCredential(employeeId, accessData, issuerDID)
issueAccessCredential(emps, tbl, employeeId, accessData, t, proof, uuid, fault, cfg, outcome) ==
    IF fault = "get" \/ getEmployee(emps, employeeId) = {} THEN Threw(tbl)
    ELSE IssueSigned(tbl, AccessCredential(employeeId, accessData, t, proof), uuid, fault,
                     cfg, outcome)

\* isCredentialRevoked(credential): a failed lookup counts as not revoked
isCredentialRevoked(tbl, credential, fail) ==
    LET metadata == getCredential(tbl, CredentialIdOf(credential), fail)
    IN  IF metadata.threw THEN FALSE
        ELSE \E m \in metadata.value : Prop(m, "status") = {"revoked"}

\* what agent.verifyCredential does with the presented credential
LibOutcomes == {"verified", "rejected", "throws"}

\* verifyCredential(credentialJWT)
verifyCredential(tbl, presented, lib, t, lookupFail) ==
    IF lib = "throws" THEN [threw |-> TRUE, verified |-> FALSE, credential |-> {}]
    ELSE [threw |-> FALSE,
          verified |-> /\ lib = "verified"
                       /\ ~isCredentialExpired(presented, t)
                       /\ ~isCredentialRevoked(tbl, presented, lookupFail),
          credential |-> IF lib = "verified" THEN {presented} ELSE {}]

\* revokeCredential(credentialId, reason = 'No reason provided')
revokeCredential(tbl, cfg, credentialId, reason, storeFail, outcome) ==
    LET why == IF reason = Undefined THEN "No reason provided" ELSE reason
        updated == updateCredentialStatus(tbl, credentialId, "revoked", why, storeFail)
    IN  IF updated.threw THEN Threw(tbl)
        ELSE IF recordRevocation(cfg, credentialId, outcome) THEN Threw(updated.table)
        ELSE Returned(updated.table,
                      [success |-> TRUE, credentialId |-> credentialId, reason |-> why])

----------------------------------------------------------------------------
(* Inputs of the requests *)

\* req.body of POST /employees that passes validateEmployee
Profiles == {[accessLevel |-> "standard", permissions |-> {"code_access"}]}
EmployeePayloads(ids) ==
    {Spread([employeeId |-> e], p) : e \in ids, p \in Profiles}

\* req.body of POST /employees/:employeeId/access-credentials
AccessPayloads ==
    {[accessType |-> "github", permissions |-> {"code_access"}, validUntil |-> v] :
        v \in Times}

\* req.body.reason of the revoking requests
Reasons == {Undefined}

\* a credential signed by somebody else's key, carrying an id of its own
ForeignCredentials ==
    {[id |-> c,
      type |-> "EmployeeCredential",
      expirationDate |-> PermanentDays,
      credentialSubject |-> [employeeId |-> "e1", accessLevel |-> "admin",
                             permissions |-> {"infrastructure_access"}],
      proof |-> 0] : c \in {UuidPool[1]}}

\* a string that is no signed credential
Malformed == [type |-> "malformed"]

IssuedCredentials == {issued[k].credential : k \in 1..Len(issued)}

\* what a caller can present to the verification routes
Presentable == IssuedCredentials \cup ForeignCredentials \cup {Malformed}

\* the stored identifier of a credential: the one its metadata was stored
\* under when it was issued, its own id when it was signed elsewhere
StoredIdOf(credential) ==
    IF \E k \in 1..Len(issued) : issued[k].credential = credential
    THEN issued[CHOOSE k \in 1..Len(issued) : issued[k].credential = credential].credentialId
    ELSE CredentialIdOf(credential)

\* the stored metadata of a credential has status `revoked`
StoredRevoked(credential) ==
    /\ StoredIdOf(credential) \in DOMAIN credentials
    /\ Prop(credentials[StoredIdOf(credential)], "status") = {"revoked"}

\* uuidv4() of the next stored credential
NextUuid == UuidPool[Len(issued) + 1]

----------------------------------------------------------------------------
(* Employee routes, employeeController.js.  An error handed to next() is   *)
(* answered 500.                                                            *)

\* didService.createDID(employeeId): the identifier of a new did:key, named
\* by its alias; the key material is left out
createDID(employeeId) == [did |-> [method |-> "did:key", alias |-> employeeId]]

\* employeeData.did = identifier.did
WithDid(employeeData) ==
    Spread(employeeData, [did |-> createDID(employeeData.employeeId).did])

\* POST /employees
PostEmployee(employeeData, fault) ==
    /\ LET created == createEmployee(employees, WithDid(employeeData), now, fault = "put")
           cred == issueEmployeeCredential(credentials, created.value, now,
                                           Len(issued) + 1, NextUuid, fault, chainCfg,
                                           IF fault = "anchor" THEN "failed" ELSE "mined")
       IN  IF fault = "did" \/ created.threw
           THEN /\ resp' = [op |-> "createEmployee", status |-> 500,
                            employeeId |-> employeeData.employeeId]
                /\ UNCHANGED <<employees, credentials, issued>>
           ELSE /\ employees' = created.table
                /\ credentials' = cred.table
                /\ IF cred.threw
                   THEN /\ resp' = [op |-> "createEmployee", status |-> 500,
                                    employeeId |-> employeeData.employeeId]
                        /\ UNCHANGED issued
                   ELSE /\ resp' = [op |-> "createEmployee", status |-> 201,
                                    employeeId |-> employeeData.employeeId]
                        /\ issued' = Append(issued, cred.value)
    /\ UNCHANGED <<accessLogs, chainCfg, registry, blockTimestamp, now, requests>>

\* POST /employees/:employeeId/access-credentials
PostAccessCredential(employeeId, accessData, fault) ==
    /\ LET cred == issueAccessCredential(employees, credentials, employeeId, accessData,
                                         now, Len(issued) + 1, NextUuid, fault, chainCfg,
                                         IF fault = "anchor" THEN "failed" ELSE "mined")
       IN  /\ credentials' = cred.table
           /\ IF cred.threw
              THEN /\ resp' = [op |-> "issueAccess", status |-> 500,
                               employeeId |-> employeeId]
                   /\ UNCHANGED issued
              ELSE /\ resp' = [op |-> "issueAccess", status |-> 201,
                               employeeId |-> employeeId]
                   /\ issued' = Append(issued, cred.value)
    /\ UNCHANGED <<employees, accessLogs, chainCfg, registry, blockTimestamp, now, requests>>

\* the number of credentials the offboarding response reports
revokedCredentialsMutant(found) ==
    Cardinality({c \in found : Prop(c, "status") = {"active"}})

revokedCredentials(found) == Cardinality(found)

\* DELETE /employees/:employeeId.  The revocations run together
\* (Promise.all): each one writes its own item, whatever the others do.
DeleteEmployee(employeeId, reason, fault, storeFails, chainFails) ==
    LET why == IF reason = Undefined THEN "Employee offboarding" ELSE reason
        found == getCredentialsByEmployee(credentials, employeeId)
        ids == {c.credentialId : c \in found}
        revoked(c) == revokeCredential(credentials, chainCfg, c, why, c \in storeFails,
                                       IF c \in chainFails THEN "failed" ELSE "mined")
        after == [c \in DOMAIN credentials |->
                     IF c \in ids THEN revoked(c).table[c] ELSE credentials[c]]
        updated == updateEmployee(employees, employeeId,
                                  [status |-> "inactive", offboardingDate |-> now,
                                   offboardingReason |-> why], fault = "update")
        failed == [op |-> "offboard", status |-> 500, employeeId |-> employeeId]
    IN  /\ storeFails \subseteq ids
        /\ chainFails \subseteq ids
        /\ IF fault = "query"
           THEN /\ resp' = failed
                /\ UNCHANGED <<employees, credentials>>
           ELSE /\ credentials' = after
                /\ IF \E c \in ids : revoked(c).threw
                   THEN /\ resp' = failed
                        /\ UNCHANGED employees
                   ELSE /\ employees' = updated.table
                        /\ resp' = IF updated.threw THEN failed
                                   ELSE [op |-> "offboard", status |-> 200,
                                         employeeId |-> employeeId,
                                         revokedCredentials |-> revokedCredentials(found),
                                         wereActive |-> Cardinality(
                                            {c \in found : Prop(c, "status") = {"active"}})]
        /\ UNCHANGED <<accessLogs, chainCfg, registry, blockTimestamp, issued, now, requests>>

----------------------------------------------------------------------------
(* The credential service called directly *)

\* credentialService.revokeCredential(credentialId, reason)
RevokeCredential(credentialId, reason, storeFail, outcome) ==
    LET r == revokeCredential(credentials, chainCfg, credentialId, reason, storeFail, outcome)
    IN  /\ credentials' = r.table
        /\ resp' = [op |-> "revoke", threw |-> r.threw, credentialId |-> credentialId]
        /\ UNCHANGED <<employees, accessLogs, chainCfg, registry, blockTimestamp, issued, now, requests>>

\* credentialService.verifyCredential(credentialJWT)
VerifyCredential(presented, lib, lookupFail) ==
    LET v == verifyCredential(credentials, presented, lib, now, lookupFail)
    IN  /\ lib = "verified" => presented /= Malformed
        /\ resp' = [op |-> "verify", presented |-> presented, lib |-> lib,
                    threw |-> v.threw, verified |-> v.verified]
        /\ UNCHANGED <<employees, credentials, accessLogs, chainCfg, registry, blockTimestamp, issued, now, requests>>

----------------------------------------------------------------------------
(* Verification routes, verificationController.js *)

\* GET /verify/status/:credentialId
GetStatus(credentialId, fail) ==
    LET credential == getCredential(credentials, credentialId, fail)
        found == CHOOSE c \in credential.value : TRUE
        isExpired == IF Prop(found, "expirationDate") = {} THEN FALSE
                     ELSE found.expirationDate < now
        isRevoked == Prop(found, "status") = {"revoked"}
    IN  /\ resp' = IF credential.threw
                   THEN [op |-> "status", status |-> 500, credentialId |-> credentialId]
                   ELSE IF credential.value = {}
                   THEN [op |-> "status", status |-> 404, credentialId |-> credentialId]
                   ELSE [op |-> "status", status |-> 200, credentialId |-> credentialId,
                         isValid |-> ~isExpired /\ ~isRevoked,
                         isExpired |-> isExpired,
                         isRevoked |-> isRevoked,
                         revocationReason |-> IF isRevoked
                                              THEN Prop(found, "revocationReason")
                                              ELSE {}]
        /\ UNCHANGED <<employees, credentials, accessLogs, chainCfg, registry, blockTimestamp, issued, now, requests>>

\* the clock advances
Tick ==
    /\ now < MaxTime
    /\ now' = now + 1
    /\ resp' = [op |-> "none"]
    /\ UNCHANGED <<employees, credentials, accessLogs, chainCfg, registry, blockTimestamp, issued, requests>>

----------------------------------------------------------------------------
(* The on-chain registry, wallet/src/App.jsx (EmployeeIdentityRegistry.sol) *)
(*                                                                         *)
(* `registry` is the storage of the deployed contract: the two mappings,   *)
(* and the owner and paused slots of the inherited Ownable and Pausable.   *)
(* A string is the sequence of its bytes, a bytes32 a number, 0 for        *)
(* bytes32(0); "0x0" is address(0).  A mapping holds the keys that were    *)
(* written; every other key reads as the zero value.  A transaction either *)
(* succeeds or reverts, and a revert restores the storage it started from. *)
(* The backend above sees the chain only as the outcome of its calls.      *)

MaxBlockTime == 2
MaxBatchItems == 51

\* address(0) and the externally owned accounts that send transactions
Addresses == {"0x0", "0xA", "0xB"}

\* CredentialRecord({...}) written by an anchoring; with address(0), 0 and
\* bytes32(0) it is the value a key reads before it is written
AnchoredRecord(sender, ts, credentialHash) ==
    [credentialHash |-> credentialHash, issuer |-> sender, timestamp |-> ts,
     isRevoked |-> FALSE, revocationReason |-> "", revocationTimestamp |-> 0,
     revoker |-> "0x0"]

\* credentials[credentialId]
Record(reg, credentialId) ==
    IF credentialId \in DOMAIN reg.credentials THEN reg.credentials[credentialId]
    ELSE AnchoredRecord("0x0", 0, 0)

\* constructor() { authorizedIssuers[msg.sender] = true; }, Ownable's sets the owner
constructor(sender) ==
    [credentials |-> << >>,
     authorizedIssuers |-> [a \in Addresses |-> a = sender],
     owner |-> sender,
     paused |-> FALSE]

\* a require that fails: the transaction reverts to the storage it started from
Reverted(before, message) == [state |-> before, status |-> message, value |-> {}]

onlyAuthorizedIssuerMutant(reg, sender) == TRUE

\* modifier onlyAuthorizedIssuer
onlyAuthorizedIssuer(reg, sender) ==
    reg.authorizedIssuers[sender] \/ sender = reg.owner

Registry_anchorCredentialMutant(reg, sender, ts, credentialId, credentialHash) ==
    IF ~onlyAuthorizedIssuer(reg, sender)
    THEN Reverted(reg, "Not authorized to issue credentials")
    ELSE IF reg.paused THEN Reverted(reg, "Pausable: paused")
    ELSE IF ~(Len(credentialId) > 0) THEN Reverted(reg, "Credential ID cannot be empty")
    ELSE IF credentialHash = 0 THEN Reverted(reg, "Credential hash cannot be empty")
    ELSE [state |-> [reg EXCEPT !.credentials =
                        (credentialId :> AnchoredRecord(sender, ts, credentialHash)) @@ @],
          status |-> "ok", value |-> {}]

\* function anchorCredential(credentialId, credentialHash)
Registry_anchorCredential(reg, sender, ts, credentialId, credentialHash) ==
    IF ~onlyAuthorizedIssuer(reg, sender)
    THEN Reverted(reg, "Not authorized to issue credentials")
    ELSE IF reg.paused THEN Reverted(reg, "Pausable: paused")
    ELSE IF ~(Len(credentialId) > 0) THEN Reverted(reg, "Credential ID cannot be empty")
    ELSE IF credentialHash = 0 THEN Reverted(reg, "Credential hash cannot be empty")
    ELSE IF ~(Record(reg, credentialId).timestamp = 0)
    THEN Reverted(reg, "Credential already exists")
    ELSE [state |-> [reg EXCEPT !.credentials =
                        (credentialId :> AnchoredRecord(sender, ts, credentialHash)) @@ @],
          status |-> "ok", value |-> {}]

Registry_revokeCredentialMutant(reg, sender, ts, credentialId, reason) ==
    IF ~(Record(reg, credentialId).timestamp /= 0)
    THEN Reverted(reg, "Credential does not exist")
    ELSE IF reg.paused THEN Reverted(reg, "Pausable: paused")
    ELSE IF ~(\/ sender = Record(reg, credentialId).issuer
              \/ sender = reg.owner
              \/ reg.authorizedIssuers[sender])
    THEN Reverted(reg, "Not authorized to revoke this credential")
    ELSE [state |-> [reg EXCEPT !.credentials[credentialId] =
                        [@ EXCEPT !.isRevoked = TRUE,
                                  !.revocationReason = reason,
                                  !.revocationTimestamp = ts,
                                  !.revoker = sender]],
          status |-> "ok", value |-> {}]

Registry_revokeCredentialOpenMutant(reg, sender, ts, credentialId, reason) ==
    IF ~(Record(reg, credentialId).timestamp /= 0)
    THEN Reverted(reg, "Credential does not exist")
    ELSE IF Record(reg, credentialId).isRevoked
    THEN Reverted(reg, "Credential is already revoked")
    ELSE IF reg.paused THEN Reverted(reg, "Pausable: paused")
    ELSE [state |-> [reg EXCEPT !.credentials[credentialId] =
                        [@ EXCEPT !.isRevoked = TRUE,
                                  !.revocationReason = reason,
                                  !.revocationTimestamp = ts,
                                  !.revoker = sender]],
          status |-> "ok", value |-> {}]

\* function revokeCredential(credentialId, reason), behind the modifiers
\* credentialExists, credentialNotRevoked and whenNotPaused
Registry_revokeCredential(reg, sender, ts, credentialId, reason) ==
    IF ~(Record(reg, credentialId).timestamp /= 0)
    THEN Reverted(reg, "Credential does not exist")
    ELSE IF Record(reg, credentialId).isRevoked
    THEN Reverted(reg, "Credential is already revoked")
    ELSE IF reg.paused THEN Reverted(reg, "Pausable: paused")
    ELSE IF ~(\/ sender = Record(reg, credentialId).issuer
              \/ sender = reg.owner
              \/ reg.authorizedIssuers[sender])
    THEN Reverted(reg, "Not authorized to revoke this credential")
    ELSE [state |-> [reg EXCEPT !.credentials[credentialId] =
                        [@ EXCEPT !.isRevoked = TRUE,
                                  !.revocationReason = reason,
                                  !.revocationTimestamp = ts,
                                  !.revoker = sender]],
          status |-> "ok", value |-> {}]

\* the views isCredentialRevoked, getCredentialHash, getCredentialRecord and
\* verifyCredential, each behind the modifier credentialExists
RecordView(reg, fn, credentialId, credentialHash) ==
    IF ~(Record(reg, credentialId).timestamp /= 0)
    THEN Reverted(reg, "Credential does not exist")
    ELSE LET credential == Record(reg, credentialId)
         IN  [state |-> reg, status |-> "ok",
              value |-> {CASE fn = "isCredentialRevoked" -> credential.isRevoked
                           [] fn = "getCredentialHash" -> credential.credentialHash
                           [] fn = "getCredentialRecord" -> credential
                           [] fn = "verifyCredential" ->
                                 /\ ~credential.isRevoked
                                 /\ credential.credentialHash = credentialHash}]

\* function authorizeIssuer(issuer), onlyOwner
authorizeIssuer(reg, sender, issuer) ==
    IF sender /= reg.owner THEN Reverted(reg, "Ownable: caller is not the owner")
    ELSE IF issuer = "0x0" THEN Reverted(reg, "Invalid issuer address")
    ELSE IF reg.authorizedIssuers[issuer] THEN Reverted(reg, "Issuer already authorized")
    ELSE [state |-> [reg EXCEPT !.authorizedIssuers[issuer] = TRUE],
          status |-> "ok", value |-> {}]

revokeIssuerAuthorizationMutant(reg, sender, issuer) ==
    IF sender /= reg.owner THEN Reverted(reg, "Ownable: caller is not the owner")
    ELSE IF ~reg.authorizedIssuers[issuer] THEN Reverted(reg, "Issuer not authorized")
    ELSE [state |-> [reg EXCEPT !.authorizedIssuers[issuer] = FALSE],
          status |-> "ok", value |-> {}]

\* function revokeIssuerAuthorization(issuer), onlyOwner
revokeIssuerAuthorization(reg, sender, issuer) ==
    IF sender /= reg.owner THEN Reverted(reg, "Ownable: caller is not the owner")
    ELSE IF ~reg.authorizedIssuers[issuer] THEN Reverted(reg, "Issuer not authorized")
    ELSE IF issuer = reg.owner THEN Reverted(reg, "Cannot revoke owner authorization")
    ELSE [state |-> [reg EXCEPT !.authorizedIssuers[issuer] = FALSE],
          status |-> "ok", value |-> {}]

\* function isAuthorizedIssuer(issuer) view
isAuthorizedIssuer(reg, issuer) ==
    [state |-> reg, status |-> "ok",
     value |-> {reg.authorizedIssuers[issuer] \/ issuer = reg.owner}]

\* pause() and unpause(), onlyOwner, and the transferOwnership(newOwner) and
\* renounceOwnership() the contract inherits from Ownable unchanged
OwnerCall(reg, sender, fn, newOwner) ==
    IF sender /= reg.owner THEN Reverted(reg, "Ownable: caller is not the owner")
    ELSE CASE fn = "pause" ->
                 IF reg.paused THEN Reverted(reg, "Pausable: paused")
                 ELSE [state |-> [reg EXCEPT !.paused = TRUE],
                       status |-> "ok", value |-> {}]
           [] fn = "unpause" ->
                 IF ~reg.paused THEN Reverted(reg, "Pausable: not paused")
                 ELSE [state |-> [reg EXCEPT !.paused = FALSE],
                       status |-> "ok", value |-> {}]
           [] fn = "transferOwnership" ->
                 IF newOwner = "0x0"
                 THEN Reverted(reg, "Ownable: new owner is the zero address")
                 ELSE [state |-> [reg EXCEPT !.owner = newOwner],
                       status |-> "ok", value |-> {}]
           [] fn = "renounceOwnership" ->
                 [state |-> [reg EXCEPT !.owner = "0x0"], status |-> "ok", value |-> {}]

\* require(credentialIds.length <= 50, ...)
BatchAnchorLimit == 50

\* the loop of batchAnchorCredentials, from item i on: the storage written so
\* far and the first requirement that failed, if one did
RECURSIVE batchLoop(_, _, _, _, _, _)
batchLoop(reg, sender, ts, credentialIds, credentialHashes, i) ==
    IF ~(i <= Len(credentialIds)) THEN [state |-> reg, status |-> "ok", value |-> {}]
    ELSE IF ~(Len(credentialIds[i]) > 0)
    THEN [state |-> reg, status |-> "Credential ID cannot be empty", value |-> {}]
    ELSE IF credentialHashes[i] = 0
    THEN [state |-> reg, status |-> "Credential hash cannot be empty", value |-> {}]
    ELSE IF ~(Record(reg, credentialIds[i]).timestamp = 0)
    THEN [state |-> reg, status |-> "Credential already exists", value |-> {}]
    ELSE batchLoop([reg EXCEPT !.credentials =
                       (credentialIds[i] :> AnchoredRecord(sender, ts, credentialHashes[i]))
                           @@ @],
                   sender, ts, credentialIds, credentialHashes, i + 1)

batchAnchorCredentialsMutant(reg, sender, ts, credentialIds, credentialHashes) ==
    IF ~onlyAuthorizedIssuer(reg, sender)
    THEN Reverted(reg, "Not authorized to issue credentials")
    ELSE IF reg.paused THEN Reverted(reg, "Pausable: paused")
    ELSE IF ~(Len(credentialIds) = Len(credentialHashes))
    THEN Reverted(reg, "Arrays length mismatch")
    ELSE IF ~(Len(credentialIds) > 0) THEN Reverted(reg, "Empty arrays")
    ELSE IF ~(Len(credentialIds) <= BatchAnchorLimit)
    THEN Reverted(reg, "Too many credentials")
    ELSE batchLoop(reg, sender, ts, credentialIds, credentialHashes, 1)

\* function batchAnchorCredentials(credentialIds, credentialHashes)
batchAnchorCredentials(reg, sender, ts, credentialIds, credentialHashes) ==
    IF ~onlyAuthorizedIssuer(reg, sender)
    THEN Reverted(reg, "Not authorized to issue credentials")
    ELSE IF reg.paused THEN Reverted(reg, "Pausable: paused")
    ELSE IF ~(Len(credentialIds) = Len(credentialHashes))
    THEN Reverted(reg, "Arrays length mismatch")
    ELSE IF ~(Len(credentialIds) > 0) THEN Reverted(reg, "Empty arrays")
    ELSE IF ~(Len(credentialIds) <= BatchAnchorLimit)
    THEN Reverted(reg, "Too many credentials")
    ELSE LET looped == batchLoop(reg, sender, ts, credentialIds, credentialHashes, 1)
         IN  IF looped.status = "ok" THEN looped ELSE Reverted(reg, looped.status)

----------------------------------------------------------------------------
(* The backend with its stores empty *)

Init ==
    /\ employees = EmptyTable
    /\ credentials = EmptyTable
    /\ accessLogs = << >>
    /\ chainCfg \in BOOLEAN
    /\ issued = << >>
    /\ now = 0
    /\ requests = << >>
    /\ registry = constructor("0xA")
    /\ blockTimestamp = 1
    /\ resp = [op |-> "none"]

CredentialIdInputs == Uuids \cup {UnknownCredentialId}

\* the credential lifecycle of one employee: issue, revoke, verify, look up
Next ==
    \/ \E d \in EmployeePayloads({"e1"}), f \in {"none", "did", "put"} \cup IssueFaults :
          Len(issued) < MaxCredentials /\ PostEmployee(d, f)
    \/ \E a \in AccessPayloads, f \in {"none", "get"} \cup IssueFaults :
          Len(issued) < MaxCredentials /\ PostAccessCredential("e1", a, f)
    \/ \E c \in CredentialIdInputs, r \in Reasons, sf \in BOOLEAN, o \in ChainOutcomes :
          RevokeCredential(c, r, sf, o)
    \/ \E p \in Presentable, l \in LibOutcomes, lf \in BOOLEAN :
          VerifyCredential(p, l, lf)
    \/ \E c \in CredentialIdInputs, f \in BOOLEAN : GetStatus(c, f)
    \/ Tick

Spec == Init /\ [][Next]_vars

----------------------------------------------------------------------------
(* Claims about verification, revocation and expiry, checked under Spec *)

\* the last operation verified an issued credential
VerifiedIssued ==
    /\ resp.op = "verify"
    /\ resp.presented \in IssuedCredentials

\* C1: once a credential issued by the service has been revoked under its
\* stored credentialId, every later verifyCredential on that signed
\* credential returns verified = false, and the status lookup of that
\* credentialId reports isRevoked = true and isValid = false.
C1_RevokedIsRejected ==
    /\ (VerifiedIssued /\ StoredRevoked(resp.presented)) => ~resp.verified
    /\ (/\ resp.op = "status"
        /\ resp.status = 200
        /\ Prop(credentials[resp.credentialId], "status") = {"revoked"})
       => (resp.isRevoked /\ ~resp.isValid)

\* C2: verifyCredential returns verified = true only if the library's check
\* passed, the credential is not expired, and the stored metadata of the
\* credential does not have status `revoked`, also when the revocation
\* lookup fails.
C2_VerifiedOnlyIfAllThree ==
    (resp.op = "verify" /\ resp.verified)
    => /\ resp.lib = "verified"
       /\ ~(resp.presented.expirationDate < now)
       /\ ~StoredRevoked(resp.presented)

\* the stored metadata of an issued credential is past its expirationDate
StoredExpired(credentialId) ==
    /\ credentialId \in DOMAIN credentials
    /\ \E d \in Prop(credentials[credentialId], "expirationDate") : d < now

\* C10: expiry is decided independently of revocation, and identically by
\* verification and by the status lookup: an issued credential whose stored
\* expirationDate is before now is not verified, whatever its stored status;
\* the status lookup that reaches the store answers 404 exactly when no
\* metadata is stored, and otherwise reports isExpired = (stored
\* expirationDate < now), isRevoked = (status is revoked), isValid = neither,
\* and a revocationReason only when isRevoked.
C10_ExpiryIndependentOfRevocation ==
    /\ (VerifiedIssued /\ StoredExpired(StoredIdOf(resp.presented))) => ~resp.verified
    /\ \A k \in 1..Len(issued) :
          isCredentialExpired(issued[k].credential, now) = StoredExpired(issued[k].credentialId)
    /\ (resp.op = "status" /\ resp.status = 404) => resp.credentialId \notin DOMAIN credentials
    /\ (resp.op = "status" /\ resp.status = 200)
       => /\ resp.credentialId \in DOMAIN credentials
          /\ resp.isExpired = StoredExpired(resp.credentialId)
          /\ resp.isRevoked = (Prop(credentials[resp.credentialId], "status") = {"revoked"})
          /\ resp.isValid = (~resp.isExpired /\ ~resp.isRevoked)
          /\ (resp.revocationReason /= {} => resp.isRevoked)

\* an issued credential that the library accepts and whose stored status is
\* active is verified after its expirationDate, and is turned down
C10_Witness ==
    /\ VerifiedIssued
    /\ resp.lib = "verified"
    /\ StoredExpired(StoredIdOf(resp.presented))
    /\ ~StoredRevoked(resp.presented)
    /\ ~resp.verified

----------------------------------------------------------------------------
(* Onboarding and offboarding of two employees *)

\* the stored credentials of an employee
CredentialsOf(employeeId) ==
    {c \in DOMAIN credentials : Prop(credentials[c], "employeeId") = {employeeId}}

\* the revocations that fail during one offboarding: none, or one of them
AtMostOne(ids) == {{}} \cup {{c} : c \in ids}

NextOffboard ==
    \/ \E d \in EmployeePayloads(EmployeeIds), f \in {"none", "put", "store"} :
          Len(issued) < MaxOffboardCredentials /\ PostEmployee(d, f)
    \/ \E e \in EmployeeIds, f \in {"none", "store"} :
          /\ Len(issued) < MaxOffboardCredentials
          /\ PostAccessCredential(e, [accessType |-> "github",
                                      permissions |-> {"code_access"},
                                      validUntil |-> MaxTime], f)
    \/ \E c \in DOMAIN credentials, sf \in BOOLEAN, o \in ChainOutcomes :
          RevokeCredential(c, Undefined, sf, o)
    \/ \E e \in DOMAIN employees, r \in Reasons :
          \/ \E f \in {"query", "update"} : DeleteEmployee(e, r, f, {}, {})
          \/ \E sf \in AtMostOne(CredentialsOf(e)) :
                \E cf \in AtMostOne(CredentialsOf(e) \ sf) :
                   DeleteEmployee(e, r, "none", sf, cf)

\* the stores are empty and the registry contract is configured, so that a
\* revocation can fail on the chain as well as in the store
InitOffboard == Init /\ chainCfg

SpecOffboard == InitOffboard /\ [][NextOffboard]_vars

\* the last request offboarded an employee and was answered 200
Offboarded == resp.op = "offboard" /\ resp.status = 200

\* when an offboarding is answered 200, every credential of the employee is
\* stored as revoked and the employee's record exists with status inactive
\* and an offboardingDate
OffboardedState ==
    Offboarded
    => /\ \A c \in CredentialsOf(resp.employeeId) :
             Prop(credentials[c], "status") = {"revoked"}
       /\ resp.employeeId \in DOMAIN employees
       /\ Prop(employees[resp.employeeId], "status") = {"inactive"}
       /\ Prop(employees[resp.employeeId], "offboardingDate") /= {}

\* C3: after a successful offboarding every credential of the employee is
\* stored as revoked, the employee is inactive with an offboardingDate, and
\* revokedCredentials equals the number N of credentials that were active,
\* also when others were already revoked.
C3_CountsActiveOnly ==
    /\ OffboardedState
    /\ Offboarded => resp.revokedCredentials = resp.wereActive

\* C3, amended: after a successful offboarding every credential of the
\* employee is stored as revoked, the employee is inactive with an
\* offboardingDate, and revokedCredentials equals the number of credentials
\* stored for the employee, the N active ones and those already revoked.
C3_CountsAllCredentials ==
    /\ OffboardedState
    /\ Offboarded => resp.revokedCredentials = Cardinality(CredentialsOf(resp.employeeId))
    /\ Offboarded => resp.revokedCredentials >= resp.wereActive

\* an employee with two active credentials and a revoked one is offboarded
C3_Witness ==
    /\ Offboarded
    /\ resp.wereActive = 2
    /\ resp.revokedCredentials = 3

----------------------------------------------------------------------------
(* App-access decision, verificationController.js.  The permission arrays  *)
(* are read only through includes, every, some and length === 0: they are  *)
(* modelled as sets.                                                        *)

MaxHeld == 2
MaxRequired == 1

\* the properties an object literal inherits from Object.prototype
ObjectPrototype == {"constructor", "__proto__", "toString", "valueOf", "hasOwnProperty"}

\* String.prototype.toLowerCase
toLowerCase(s) ==
    CASE s = "GitHub"   -> "github"
      [] s = "AWS"      -> "aws"
      [] s = "toString" -> "tostring"
      [] s = "valueOf"  -> "valueof"
      [] s = "hasOwnProperty" -> "hasownproperty"
      [] OTHER          -> s

appAccessRules ==
    ("github" :> [requiredLevel |-> "standard", requiredPermissions |-> {"code_access"}])
    @@ ("slack" :> [requiredLevel |-> "basic", requiredPermissions |-> {"communication"}])
    @@ ("aws" :> [requiredLevel |-> "admin",
                  requiredPermissions |-> {"infrastructure_access"}])
    @@ ("jira" :> [requiredLevel |-> "standard",
                   requiredPermissions |-> {"project_management"}])
    @@ ("google-workspace" :> [requiredLevel |-> "basic",
                               requiredPermissions |-> {"email_access", "document_access"}])

levelHierarchy == [basic |-> 1, standard |-> 2, admin |-> 3]

\* levelHierarchy[level] || 0, as the set of numbers it compares as: an
\* inherited property is a function or an object, which compares as NaN
LevelOf(level) ==
    IF level \in DOMAIN levelHierarchy THEN {levelHierarchy[level]}
    ELSE IF level \in ObjectPrototype THEN {}
    ELSE {0}

\* checkAppAccess(credentialSubject, appName, requiredPermissions):
\* "granted" (true), "denied" (false) or "throws"
checkAppAccess(credentialSubject, appName, requiredPermissions) ==
    LET userPermissions == IF Prop(credentialSubject, "permissions") = {} THEN {}
                           ELSE credentialSubject.permissions
        accessLevel == IF Prop(credentialSubject, "accessLevel") \subseteq {"", Undefined}
                       THEN "basic" ELSE credentialSubject.accessLevel
        name == toLowerCase(appName)
    IN  IF name \notin DOMAIN appAccessRules /\ name \notin ObjectPrototype
        THEN \* no rule: any one of the required permissions is enough
             IF requiredPermissions = {} \/ requiredPermissions \cap userPermissions /= {}
             THEN "granted" ELSE "denied"
        ELSE IF name \notin DOMAIN appAccessRules
        THEN \* appRule is an inherited property: it has no requiredLevel, so
             \* the level test passes, and spreading its missing
             \* requiredPermissions throws a TypeError
             "throws"
        ELSE LET appRule == appAccessRules[name]
                 userLevel == LevelOf(accessLevel)
                 requiredLevel == LevelOf(appRule.requiredLevel)
             IN  IF \E u \in userLevel, r \in requiredLevel : u < r THEN "denied"
                 ELSE IF (appRule.requiredPermissions \cup requiredPermissions)
                            \subseteq userPermissions
                 THEN "granted" ELSE "denied"

\* inputs of the decision
PermissionTags ==
    {"code_access", "communication", "infrastructure_access", "project_management",
     "email_access", "document_access", "deploy"}
AccessLevels == {"basic", "standard", "admin", Undefined, "guest", "constructor"}
AppNames == {"github", "GitHub", "slack", "aws", "jira", "google-workspace", "notion",
             "constructor"}
HeldSets == {h \in SUBSET PermissionTags : Cardinality(h) <= MaxHeld}
RequiredSets == {r \in SUBSET PermissionTags : Cardinality(r) <= MaxRequired}
Subjects ==
    {[employeeId |-> "e1", permissions |-> h]
        @@ (IF l = Undefined THEN << >> ELSE [accessLevel |-> l]) :
        l \in AccessLevels, h \in HeldSets}

\* the decision is asked about one subject, app and list of permissions
InitAppAccess ==
    /\ employees = EmptyTable
    /\ credentials = EmptyTable
    /\ accessLogs = << >>
    /\ chainCfg \in BOOLEAN
    /\ issued = << >>
    /\ now = 0
    /\ requests = << >>
    /\ registry = constructor("0xA")
    /\ blockTimestamp = 1
    /\ resp \in {[op |-> "ask", subject |-> subject, appName |-> a,
                  requiredPermissions |-> r] :
                    subject \in Subjects, a \in AppNames, r \in RequiredSets}

\* checkAppAccess applied to the input
CheckAppAccess ==
    /\ resp.op = "ask"
    /\ resp' = [op |-> "checkAppAccess", subject |-> resp.subject,
                appName |-> resp.appName,
                requiredPermissions |-> resp.requiredPermissions,
                result |-> checkAppAccess(resp.subject, resp.appName,
                                          resp.requiredPermissions)]
    /\ UNCHANGED <<employees, credentials, accessLogs, chainCfg, registry, blockTimestamp, issued, now, requests>>

NextAppAccess == CheckAppAccess

SpecAppAccess == InitAppAccess /\ [][NextAppAccess]_vars

\* the decision as the specification states it
ListedApps == {"github", "slack", "aws", "jira", "google-workspace"}
ListedLevel == ("github" :> "standard") @@ ("slack" :> "basic") @@ ("aws" :> "admin")
               @@ ("jira" :> "standard") @@ ("google-workspace" :> "basic")
ListedPermissions ==
    ("github" :> {"code_access"}) @@ ("slack" :> {"communication"})
    @@ ("aws" :> {"infrastructure_access"}) @@ ("jira" :> {"project_management"})
    @@ ("google-workspace" :> {"email_access", "document_access"})

\* basic = 1, standard = 2, admin = 3; a subject without a level ranks as basic
Rank(level) ==
    CASE level \in {"basic", Undefined} -> 1
      [] level = "standard" -> 2
      [] level = "admin"    -> 3
      [] OTHER              -> 0

ReferenceDecision(subject, appName, requiredPermissions) ==
    LET held == IF "permissions" \in DOMAIN subject THEN subject.permissions ELSE {}
        level == IF "accessLevel" \in DOMAIN subject THEN subject.accessLevel ELSE Undefined
        app == toLowerCase(appName)
    IN  IF app \in ListedApps
        THEN /\ Rank(level) >= Rank(ListedLevel[app])
             /\ (ListedPermissions[app] \cup requiredPermissions) \subseteq held
        ELSE requiredPermissions = {} \/ requiredPermissions \cap held /= {}

\* C7: checkAppAccess equals the reference decision for every access level,
\* permission set, app name and required-permission list: it grants when the
\* reference grants and denies when the reference denies.
C7_EqualsReference ==
    resp.op = "checkAppAccess"
    => resp.result = IF ReferenceDecision(resp.subject, resp.appName,
                                          resp.requiredPermissions)
                     THEN "granted" ELSE "denied"

\* C7, on the listed apps and the unlisted ones that name no inherited
\* property, for subjects whose level is one of the three or missing
C7_EqualsReferenceOnPlainInputs ==
    (/\ resp.op = "checkAppAccess"
     /\ toLowerCase(resp.appName) \notin ObjectPrototype
     /\ Prop(resp.subject, "accessLevel") \cap ObjectPrototype = {})
    => resp.result = IF ReferenceDecision(resp.subject, resp.appName,
                                          resp.requiredPermissions)
                     THEN "granted" ELSE "denied"

----------------------------------------------------------------------------
(* App-access route, verificationController.js.  Of a log entry the model  *)
(* keeps who, what, for which app, and the permissions; logId, timestamp    *)
(* and ipAddress are left out.                                              *)

\* a request body without a credential
NoCredential == [type |-> "none"]

\* POST /verify/access/:appName
PostAccess(appName, presented, requiredPermissions, lib, logFail) ==
    LET verification == verifyCredential(credentials, presented, lib, now, FALSE)
        credentialSubject == presented.credentialSubject
        hasAccess == checkAppAccess(credentialSubject, appName, requiredPermissions)
        answer(status, verified, decision) ==
            [op |-> "access", appName |-> appName,
             carried |-> presented /= NoCredential,
             status |-> status, verified |-> verified, hasAccess |-> decision,
             accessGranted |-> status = 200,
             subject |-> IF verified THEN {credentialSubject.employeeId} ELSE {},
             logsBefore |-> Len(accessLogs)]
    IN  /\ lib = "verified" => presented \notin {Malformed, NoCredential}
        /\ IF presented = NoCredential
           THEN /\ resp' = answer(400, FALSE, "none")
                /\ UNCHANGED accessLogs
           ELSE IF verification.threw
           THEN /\ resp' = answer(500, FALSE, "none")
                /\ UNCHANGED accessLogs
           ELSE IF ~verification.verified
           THEN IF logFail
                THEN /\ resp' = answer(500, FALSE, "none")
                     /\ UNCHANGED accessLogs
                ELSE /\ accessLogs' = logAccess(accessLogs,
                            [employeeId |-> "unknown", action |-> "access_denied",
                             verifierApp |-> appName, success |-> FALSE,
                             reason |-> "Invalid credential"])
                     /\ resp' = answer(401, FALSE, "none")
           ELSE IF hasAccess = "throws" \/ logFail
           THEN /\ resp' = answer(500, TRUE, hasAccess)
                /\ UNCHANGED accessLogs
           ELSE /\ accessLogs' = logAccess(accessLogs,
                       [employeeId |-> credentialSubject.employeeId,
                        action |-> IF hasAccess = "granted"
                                   THEN "access_granted" ELSE "access_denied",
                        verifierApp |-> appName, success |-> hasAccess = "granted",
                        requestedPermissions |-> requiredPermissions,
                        userPermissions |-> credentialSubject.permissions])
                /\ resp' = answer(IF hasAccess = "granted" THEN 200 ELSE 403, TRUE, hasAccess)
        /\ UNCHANGED <<employees, credentials, chainCfg, registry, blockTimestamp, issued, now, requests>>

\* the employees whose credentials are presented to the route
AccessProfiles ==
    {[accessLevel |-> "standard", permissions |-> {"code_access"}],
     [accessLevel |-> "basic", permissions |-> {}]}
AccessApps == {"github", "notion", "constructor"}
AccessRequired == {{}, {"deploy"}}

NextAccess ==
    \/ \E d \in AccessProfiles, f \in {"none", "did", "put"} \cup IssueFaults :
          /\ Len(issued) < MaxCredentials
          /\ PostEmployee(Spread([employeeId |-> "e1"], d), f)
    \/ \E a \in AccessApps, p \in Presentable \cup {NoCredential}, r \in AccessRequired,
          l \in LibOutcomes, lf \in BOOLEAN :
          /\ Len(accessLogs) < MaxLogs
          /\ PostAccess(a, p, r, l, lf)

SpecAccess == Init /\ [][NextAccess]_vars

\* the entry the last request appended
LastEntry == accessLogs[Len(accessLogs)]

\* C8: every POST /verify/access/:appName request that carries a credential
\* appends exactly one access-log entry and answers consistently with it:
\* 401 and access_denied for `unknown` when the credential is invalid or
\* unverifiable, 403 and access_denied for the employee when checkAppAccess
\* is false, 200 with accessGranted and access_granted when it is true; and
\* access is never reported granted without a verified credential.
C8_OneEntryAndConsistent ==
    /\ (resp.op = "access" /\ resp.carried)
       => /\ Len(accessLogs) = resp.logsBefore + 1
          /\ ~resp.verified
             => /\ resp.status = 401
                /\ LastEntry.action = "access_denied"
                /\ LastEntry.employeeId = "unknown"
          /\ (resp.verified /\ resp.hasAccess /= "granted")
             => /\ resp.status = 403
                /\ LastEntry.action = "access_denied"
                /\ {LastEntry.employeeId} = resp.subject
          /\ (resp.verified /\ resp.hasAccess = "granted")
             => /\ resp.status = 200
                /\ resp.accessGranted
                /\ LastEntry.action = "access_granted"
    /\ (resp.op = "access" /\ resp.accessGranted) => resp.verified

\* C8, for the requests answered 401, 403 or 200: exactly one entry is
\* appended, it matches the answer, and access is granted only to a verified
\* credential for which checkAppAccess is true.
C8_AnsweredRequestsAreLogged ==
    /\ (resp.op = "access" /\ resp.status \in {401, 403, 200})
       => /\ Len(accessLogs) = resp.logsBefore + 1
          /\ resp.status = 401
             => (~resp.verified /\ LastEntry.action = "access_denied"
                 /\ LastEntry.employeeId = "unknown")
          /\ resp.status = 403
             => (resp.verified /\ resp.hasAccess = "denied"
                 /\ LastEntry.action = "access_denied"
                 /\ {LastEntry.employeeId} = resp.subject)
          /\ resp.status = 200
             => (resp.verified /\ resp.hasAccess = "granted" /\ resp.accessGranted
                 /\ LastEntry.action = "access_granted")
    /\ (resp.op = "access" /\ resp.accessGranted) => resp.verified

----------------------------------------------------------------------------
(* POST /employees served step by step, employeeController.js: the handler *)
(* awaits createDID, createEmployee and issueEmployeeCredential in turn,   *)
(* and the steps of the requests in flight interleave.  Each request       *)
(* carries its own `name`, so that the stored record tells who wrote it.   *)

MaxRequests == 2

RequestIds == 1..MaxRequests

\* req.body of request r
CreateBody(r, employeeId) ==
    [employeeId |-> employeeId, name |-> r, accessLevel |-> "standard",
     permissions |-> {"code_access"}]

\* the request arrives and the handler awaits didService.createDID
Begin(r, employeeId) ==
    /\ r \notin DOMAIN requests
    /\ requests' = (r :> [pc |-> "createDID", body |-> CreateBody(r, employeeId),
                          faulted |-> FALSE]) @@ requests
    /\ UNCHANGED <<employees, credentials, accessLogs, chainCfg, registry, blockTimestamp, issued, now, resp>>

\* next(error): the request is answered 500
Failed(r, byFault) ==
    (r :> [pc |-> "done", body |-> requests[r].body, status |-> 500,
           faulted |-> byFault]) @@ requests

\* createDID returns, or throws
CreateDIDStep(r, fail) ==
    /\ r \in DOMAIN requests
    /\ requests[r].pc = "createDID"
    /\ requests' = IF fail THEN Failed(r, TRUE)
                   ELSE (r :> [pc |-> "createEmployee",
                               body |-> WithDid(requests[r].body),
                               faulted |-> FALSE]) @@ requests
    /\ UNCHANGED <<employees, credentials, accessLogs, chainCfg, registry, blockTimestamp, issued, now, resp>>

\* dynamoService.createEmployee returns the stored employee, or throws
CreateEmployeeStep(r, fail) ==
    /\ r \in DOMAIN requests
    /\ requests[r].pc = "createEmployee"
    /\ LET created == createEmployee(employees, requests[r].body, now, fail)
       IN  /\ employees' = created.table
           /\ requests' = IF created.threw THEN Failed(r, fail)
                          ELSE (r :> [pc |-> "issue", body |-> requests[r].body,
                                      employee |-> created.value,
                                      faulted |-> FALSE]) @@ requests
    /\ UNCHANGED <<credentials, accessLogs, chainCfg, registry, blockTimestamp, issued, now, resp>>

\* issueEmployeeCredential returns and the request is answered 201, or throws
IssueStep(r, fault) ==
    /\ r \in DOMAIN requests
    /\ requests[r].pc = "issue"
    /\ LET cred == issueEmployeeCredential(credentials, requests[r].employee, now,
                                           Len(issued) + 1, NextUuid, fault, chainCfg,
                                           IF fault = "anchor" THEN "failed" ELSE "mined")
       IN  /\ credentials' = cred.table
           /\ issued' = IF cred.threw THEN issued ELSE Append(issued, cred.value)
           /\ requests' = IF cred.threw THEN Failed(r, TRUE)
                          ELSE (r :> [pc |-> "done", body |-> requests[r].body,
                                      employee |-> requests[r].employee,
                                      status |-> 201, faulted |-> FALSE]) @@ requests
    /\ UNCHANGED <<employees, accessLogs, chainCfg, registry, blockTimestamp, now, resp>>

NextCreate ==
    \/ \E r \in RequestIds, e \in EmployeeIds : Begin(r, e)
    \/ \E r \in RequestIds, f \in BOOLEAN : CreateDIDStep(r, f)
    \/ \E r \in RequestIds, f \in BOOLEAN : CreateEmployeeStep(r, f)
    \/ \E r \in RequestIds, f \in {"none"} \cup IssueFaults : IssueStep(r, f)

SpecCreate == Init /\ [][NextCreate]_vars

\* createEmployee returned an employee to request r
Created(r) == r \in DOMAIN requests /\ "employee" \in DOMAIN requests[r]

\* request r was answered
Answered(r) == r \in DOMAIN requests /\ requests[r].pc = "done"

\* C4: a create whose identifier already has a record fails and leaves the
\* record as the first create wrote it; of the create requests with the
\* same identifier, run in any interleaving, at most one succeeds, exactly
\* one when all are answered and no dependency failed, and the stored
\* record is the one that request wrote.
C4_OneCreateWins ==
    /\ \A r \in RequestIds :
          Created(r) => /\ requests[r].body.employeeId \in DOMAIN employees
                        /\ employees[requests[r].body.employeeId] = requests[r].employee
                        /\ employees[requests[r].body.employeeId].name = r
    /\ \A r, q \in RequestIds :
          (/\ Created(r) /\ Created(q)
           /\ requests[r].body.employeeId = requests[q].body.employeeId) => r = q
    /\ \A r \in RequestIds :
          (Answered(r) /\ requests[r].status = 201) => Created(r)
    /\ \A e \in EmployeeIds :
          LET same == {r \in RequestIds :
                          r \in DOMAIN requests /\ requests[r].body.employeeId = e}
          IN  (/\ same /= {}
               /\ \A r \in same : Answered(r) /\ ~requests[r].faulted)
              => Cardinality({r \in same : requests[r].status = 201}) = 1

\* two requests with the same identifier were both answered without a
\* dependency failing: one with 201, the other with 500
C4_Witness ==
    \E r, q \in RequestIds :
        /\ r /= q
        /\ Answered(r) /\ Answered(q)
        /\ requests[r].body.employeeId = requests[q].body.employeeId
        /\ ~requests[r].faulted /\ ~requests[q].faulted
        /\ requests[r].status = 201
        /\ requests[q].status = 500

----------------------------------------------------------------------------
(* Authentication middleware (part_007, middleware/auth.js) and the route  *)
(* mounting of the full profile (index.js).  An Authorization header is a  *)
(* prefix followed by a token; a token is its signature check and the      *)
(* claims it decodes to.                                                   *)

TokenRoles == {"admin", "hr", "employee", "contractor"}

\* the empty string where a token should be
EmptyToken == [sig |-> "empty", role |-> Undefined, employeeId |-> Undefined]

\* tokens signed with JWT_SECRET, and one that is not
GoodTokens ==
    {[sig |-> "good", role |-> r, employeeId |-> "e1"] : r \in TokenRoles}
    \cup {[sig |-> "good", role |-> "employee", employeeId |-> e] :
            e \in EmployeeIds \cup {Undefined}}
Tokens == GoodTokens \cup {[sig |-> "forged", role |-> "admin", employeeId |-> "e1"]}

\* req.header('Authorization'): missing, 'Bearer ' and a token, a bare token,
\* or another scheme
Headers ==
    {[present |-> FALSE, prefix |-> "", rest |-> EmptyToken]}
    \cup {[present |-> TRUE, prefix |-> "Bearer ", rest |-> t] : t \in Tokens \cup {EmptyToken}}
    \cup {[present |-> TRUE, prefix |-> x,
           rest |-> [sig |-> "good", role |-> "admin", employeeId |-> "e1"]] :
            x \in {"", "Basic "}}

\* header.replace('Bearer ', ''): the prefix is cut when it is 'Bearer '
replace(header) ==
    [prefix |-> IF header.prefix = "Bearer " THEN "" ELSE header.prefix,
     rest |-> header.rest]

\* jwt.verify(token, JWT_SECRET) returns the claims, here as a set: empty
\* when it throws
verify(token) ==
    IF token.prefix = "" /\ token.rest.sig = "good"
    THEN {[role |-> token.rest.role, employeeId |-> token.rest.employeeId]}
    ELSE {}

\* jwt.decode: the claims of any token, whoever signed it
authMiddlewareMutant(header) ==
    IF ~header.present \/ header.rest = EmptyToken
    THEN [next |-> FALSE, status |-> 401, user |-> {}]
    ELSE [next |-> TRUE, status |-> 200,
          user |-> {[role |-> header.rest.role, employeeId |-> header.rest.employeeId]}]

\* authMiddleware(req, res, next): next() with req.user set, or 401
authMiddleware(header) ==
    LET token == replace(header)
    IN  IF ~header.present \/ (token.prefix = "" /\ token.rest = EmptyToken)
        THEN [next |-> FALSE, status |-> 401, user |-> {}]
        ELSE IF verify(token) = {}
        THEN [next |-> FALSE, status |-> 401, user |-> {}]
        ELSE [next |-> TRUE, status |-> 200, user |-> verify(token)]

\* requireRole(roles)(req, res, next)
requireRole(roles, user) ==
    IF user = {} THEN [next |-> FALSE, status |-> 401]
    ELSE IF \A u \in user : u.role \notin roles THEN [next |-> FALSE, status |-> 403]
    ELSE [next |-> TRUE, status |-> 200]

\* app.use(mount, authMiddleware, router)
AuthMounts == {"/api/employees", "/api/credentials", "/api/did", "/api/access-logs"}

\* the routes: those of the employee router with their requireRole lists,
\* one for each other mounted router, and the public ones
Routes ==
    {[name |-> n, mount |-> "/api/employees", gated |-> TRUE, roles |-> {"admin", "hr"}] :
        n \in {"POST /", "GET /", "PUT /:employeeId", "DELETE /:employeeId",
               "POST /:employeeId/access-credentials"}}
    \cup {[name |-> n, mount |-> "/api/employees", gated |-> TRUE,
           roles |-> {"admin", "hr", "employee"}] :
            n \in {"GET /:employeeId", "GET /:employeeId/credentials",
                   "GET /:employeeId/did"}}
    \cup {[name |-> "*", mount |-> x, gated |-> FALSE, roles |-> {}] :
            x \in {"/api/credentials", "/api/did", "/api/access-logs", "/api/verify"}}
    \cup {[name |-> "GET /health", mount |-> "/health", gated |-> FALSE, roles |-> {}]}

----------------------------------------------------------------------------
(* The read routes of the employee router, employeeController.js, behind   *)
(* the middleware.  `read` names what the handler fetched.                 *)

\* what a handler hands back
Answer(status, read, data) == [status |-> status, read |-> read, data |-> data]

denyOtherEmployeeMutant(user, employeeId) ==
    FALSE

\* req.user.role === 'employee' && req.user.employeeId !== employeeId
denyOtherEmployee(user, employeeId) ==
    user.role = "employee" /\ user.employeeId /= employeeId

\* GET /:employeeId
GetEmployee(user, employeeId, fail) ==
    IF denyOtherEmployee(user, employeeId) THEN Answer(403, {}, {})
    ELSE IF fail THEN Answer(500, {"employees"}, {})
    ELSE LET employee == getEmployee(employees, employeeId)
         IN  IF employee = {} THEN Answer(404, {"employees"}, {})
             ELSE Answer(200, {"employees"}, employee)

\* GET /:employeeId/credentials
GetEmployeeCredentials(user, employeeId, fail) ==
    IF denyOtherEmployee(user, employeeId) THEN Answer(403, {}, {})
    ELSE IF fail THEN Answer(500, {"credentials"}, {})
    ELSE Answer(200, {"credentials"}, getCredentialsByEmployee(credentials, employeeId))

\* didService.resolveDID(did): the document, as a set; empty when it throws
resolveDID(did, fail) == IF fail THEN {} ELSE {[id |-> did]}

\* GET /:employeeId/did
GetEmployeeDid(user, employeeId, fail) ==
    IF denyOtherEmployee(user, employeeId) THEN Answer(403, {}, {})
    ELSE LET employee == getEmployee(employees, employeeId)
         IN  IF \A e \in employee : Prop(e, "did") = {}
             THEN Answer(404, {"employees"}, {})
             ELSE LET didDocument ==
                          resolveDID((CHOOSE e \in employee : TRUE).did, fail)
                  IN  IF didDocument = {} THEN Answer(500, {"employees", "did"}, {})
                      ELSE Answer(200, {"employees", "did"}, didDocument)

OwnDataRoutes == {"GET /:employeeId", "GET /:employeeId/credentials", "GET /:employeeId/did"}

\* one request through the middleware of its mount, the requireRole of its
\* route, and its handler.  The handlers that are no read route of the
\* employee router only record that they ran.
Request(route, header, employeeId, fail) ==
    LET auth == IF route.mount \in AuthMounts THEN authMiddleware(header)
                ELSE [next |-> TRUE, status |-> 200, user |-> {}]
        role == IF route.gated THEN requireRole(route.roles, auth.user)
                ELSE [next |-> TRUE, status |-> 200]
        user == CHOOSE u \in auth.user : TRUE
        handled ==
            CASE route.name = "GET /:employeeId" -> GetEmployee(user, employeeId, fail)
              [] route.name = "GET /:employeeId/credentials"
                    -> GetEmployeeCredentials(user, employeeId, fail)
              [] route.name = "GET /:employeeId/did" -> GetEmployeeDid(user, employeeId, fail)
              [] OTHER -> Answer(200, {}, {})
        answer(status, ran, read, data) ==
            [op |-> "request", route |-> route, header |-> header,
             employeeId |-> employeeId, status |-> status, ran |-> ran,
             read |-> read, data |-> data]
    IN  /\ resp' = IF ~auth.next THEN answer(auth.status, FALSE, {}, {})
                   ELSE IF ~role.next THEN answer(role.status, FALSE, {}, {})
                   ELSE answer(handled.status, TRUE, handled.read, handled.data)
        /\ UNCHANGED <<employees, credentials, accessLogs, chainCfg, registry, blockTimestamp, issued, now, requests>>

NextHttp ==
    \/ \E d \in EmployeePayloads(EmployeeIds), f \in {"none", "did", "put"} \cup IssueFaults :
          Len(issued) < MaxCredentials /\ PostEmployee(d, f)
    \/ \E route \in Routes, h \in Headers, e \in EmployeeIds, f \in BOOLEAN :
          Request(route, h, e, f)

SpecHttp == Init /\ [][NextHttp]_vars

\* the request carried a token that verifies against the shared secret
Verifies(header) ==
    /\ header.present
    /\ header.prefix \in {"Bearer ", ""}
    /\ header.rest.sig = "good"

\* C5: on GET /employees/:id, GET /employees/:id/credentials and
\* GET /employees/:id/did, a caller whose role is `employee` and whose
\* employeeId differs from :id is answered 403, and no employee record,
\* credential list or DID document is read or returned.
C5_EmployeeReadsOwnDataOnly ==
    (/\ resp.op = "request"
     /\ resp.route.mount = "/api/employees"
     /\ resp.route.name \in OwnDataRoutes
     /\ Verifies(resp.header)
     /\ resp.header.rest.role = "employee"
     /\ resp.header.rest.employeeId /= resp.employeeId)
    => (resp.status = 403 /\ resp.read = {} /\ resp.data = {})

\* an employee asks for the record, credentials or DID of another employee
\* who has them, and is answered 403
C5_Witness ==
    /\ resp.op = "request"
    /\ resp.route.name \in OwnDataRoutes
    /\ Verifies(resp.header)
    /\ resp.header.rest.role = "employee"
    /\ resp.header.rest.employeeId = "e1"
    /\ resp.employeeId = "e2"
    /\ "e2" \in DOMAIN employees
    /\ CredentialsOf("e2") /= {}
    /\ resp.status = 403

\* C6: in the full profile the handler of a route under /api/employees,
\* /api/credentials, /api/did or /api/access-logs runs only if the request
\* carried a token that verifies and, on a role-gated route, the token's
\* role is in the route's list; a missing or invalid token is answered 401,
\* a verified one with a role outside the list 403; /health and
\* /api/verify/* run their handler whatever the header.
C6_HandlersBehindAuth ==
    resp.op = "request"
    => LET guarded == resp.route.mount \in
                         {"/api/employees", "/api/credentials", "/api/did",
                          "/api/access-logs"}
           allowed == ~resp.route.gated \/ resp.header.rest.role \in resp.route.roles
       IN  /\ (guarded /\ resp.ran) => (Verifies(resp.header) /\ allowed)
           /\ (guarded /\ ~Verifies(resp.header)) => (resp.status = 401 /\ ~resp.ran)
           /\ (guarded /\ Verifies(resp.header) /\ ~allowed)
              => (resp.status = 403 /\ ~resp.ran)
           /\ ~guarded => resp.ran

\* a verified token whose role is outside the list of a role-gated route is
\* answered 403
C6_Witness ==
    /\ resp.op = "request"
    /\ resp.route.mount = "/api/employees"
    /\ resp.route.gated
    /\ Verifies(resp.header)
    /\ resp.header.rest.role \notin resp.route.roles
    /\ resp.status = 403
    /\ ~resp.ran

----------------------------------------------------------------------------
(* Batch verification, verificationController.js.  An item of the batch is *)
(* a credential together with what the library makes of it.                *)

MaxBatch == 11
BatchLimit == 10

\* the items a batch is made of
BatchItems ==
    {[presented |-> p, lib |-> l] : p \in Presentable \ {Malformed}, l \in LibOutcomes}
    \cup {[presented |-> Malformed, lib |-> l] : l \in {"rejected", "throws"}}

\* req.body.credentials: not an array, or n copies of an item with one
\* position holding another item
Batches ==
    {[isArray |-> FALSE, items |-> << >>]}
    \cup {[isArray |-> TRUE, items |-> [i \in 1..n |-> IF i = j THEN x ELSE b]] :
            n \in 0..MaxBatch, j \in 1..MaxBatch, b \in BatchItems, x \in BatchItems}

tooManyMutant(items) ==
    FALSE

\* credentials.length > 10
tooMany(items) == Len(items) > BatchLimit

\* one element of verificationPromises: the item at JavaScript index i - 1
VerifyItem(items, i) ==
    LET verification == verifyCredential(credentials, items[i].presented, items[i].lib,
                                         now, FALSE)
    IN  IF verification.threw
        THEN [index |-> i - 1, verified |-> FALSE, credential |-> {},
              error |-> {"Failed to verify credential"}]
        ELSE [index |-> i - 1, verified |-> verification.verified,
              credential |-> verification.credential, error |-> {}]

\* POST /verify/batch
PostBatch(body) ==
    LET items == body.items
        results == [i \in 1..Len(items) |-> VerifyItem(items, i)]
        rejected == [op |-> "batch", credentials |-> body, status |-> 400,
                     started |-> 0, results |-> << >>]
    IN  /\ resp' = IF ~body.isArray \/ Len(items) = 0 THEN rejected
                   ELSE IF tooMany(items) THEN rejected
                   ELSE [op |-> "batch", credentials |-> body, status |-> 200,
                         started |-> Len(items), results |-> results,
                         summary |->
                            [total |-> Len(items),
                             verified |-> Cardinality(
                                {i \in 1..Len(results) : results[i].verified}),
                             failed |-> Cardinality(
                                {i \in 1..Len(results) : ~results[i].verified})]]
        /\ UNCHANGED <<employees, credentials, accessLogs, chainCfg, registry, blockTimestamp, issued, now, requests>>

\* the stores are empty and one batch is about to be posted
InitBatch ==
    /\ employees = EmptyTable
    /\ credentials = EmptyTable
    /\ accessLogs = << >>
    /\ chainCfg \in BOOLEAN
    /\ issued = << >>
    /\ now = 0
    /\ requests = << >>
    /\ registry = constructor("0xA")
    /\ blockTimestamp = 1
    /\ resp \in {[op |-> "ask", credentials |-> body] : body \in Batches}

NextBatch == resp.op = "ask" /\ PostBatch(resp.credentials)

SpecBatch == InitBatch /\ [][NextBatch]_vars

\* what verifying one credential on its own reports
Alone(item) ==
    LET v == verifyCredential(credentials, item.presented, item.lib, now, FALSE)
    IN  [verified |-> ~v.threw /\ v.verified, error |-> v.threw]

\* C9: a batch that is not an array, is empty or has more than 10 items is
\* answered 400 and no verification starts; a batch of 1 to 10 items is
\* answered with one result per item, carrying the item's index and what the
\* item gives when verified alone (a throwing item is not verified and has
\* an error message), and summary.verified + summary.failed = summary.total
\* = the number of items.
C9_BatchLimitsAndSummary ==
    resp.op = "batch"
    => LET body == resp.credentials
           n == Len(body.items)
       IN  /\ (~body.isArray \/ n = 0 \/ n > 10)
              => (resp.status = 400 /\ resp.started = 0 /\ resp.results = << >>)
           /\ (body.isArray /\ n >= 1 /\ n <= 10)
              => /\ resp.status = 200
                 /\ resp.started = n
                 /\ Len(resp.results) = n
                 /\ \A i \in 1..n :
                       /\ resp.results[i].index = i - 1
                       /\ resp.results[i].verified = Alone(body.items[i]).verified
                       /\ (resp.results[i].error /= {}) = Alone(body.items[i]).error
                       /\ resp.results[i].error /= {} => ~resp.results[i].verified
                 /\ resp.summary.total = n
                 /\ resp.summary.verified + resp.summary.failed = resp.summary.total
                 /\ resp.summary.verified =
                       Cardinality({i \in 1..n : Alone(body.items[i]).verified})

\* ten items, one of which throws: nine are verified, one failed
C9_Witness ==
    /\ resp.op = "batch"
    /\ resp.status = 200
    /\ resp.summary.total = 10
    /\ resp.summary.verified = 9
    /\ resp.summary.failed = 1
    /\ \E i \in 1..10 : resp.results[i].error /= {}

\* eleven items are turned down before any verification
C9_WitnessEleven ==
    /\ resp.op = "batch"
    /\ Len(resp.credentials.items) = 11
    /\ resp.status = 400
    /\ resp.started = 0

----------------------------------------------------------------------------
(* The registry serving transactions and calls *)

\* msg.sender: an externally owned account, never address(0)
Accounts == Addresses \ {"0x0"}

\* the credential identifiers of single transactions: "" and one identifier
TxCredentialIds == {<< >>, <<1>>}

\* the batches sent: n items with the identifiers 1..n, empty, short and on
\* either side of the limit; arrays of unequal lengths; and batches of two
\* with an identifier twice, an empty identifier, a zero hash, or none of these
BatchInputs ==
    {[credentialIds |-> [i \in 1..n |-> <<i>>], credentialHashes |-> [i \in 1..n |-> 1]] :
        n \in {0, 1, 2} \cup (BatchAnchorLimit..MaxBatchItems)}
    \cup {[credentialIds |-> <<<<2>>>>, credentialHashes |-> <<1, 2>>],
          [credentialIds |-> <<<<2>>, <<2>>>>, credentialHashes |-> <<1, 2>>],
          [credentialIds |-> <<<<2>>, << >>>>, credentialHashes |-> <<1, 2>>],
          [credentialIds |-> <<<<2>>, <<1>>>>, credentialHashes |-> <<2, 0>>],
          [credentialIds |-> <<<<2>>, <<1>>>>, credentialHashes |-> <<2, 1>>]}

\* the transactions and calls sent to the contract
Calls ==
    [fn : {"anchorCredential"}, sender : Accounts, credentialId : TxCredentialIds,
     credentialHash : 0..2]
    \cup [fn : {"batchAnchorCredentials"}, sender : Accounts, batch : BatchInputs]
    \cup [fn : {"revokeCredential"}, sender : Accounts, credentialId : TxCredentialIds]
    \cup [fn : {"authorizeIssuer", "revokeIssuerAuthorization"}, sender : Accounts,
          issuer : Addresses]
    \cup [fn : {"pause", "unpause", "renounceOwnership"}, sender : Accounts]
    \cup [fn : {"transferOwnership"}, sender : Accounts, newOwner : Addresses]
    \cup [fn : {"isCredentialRevoked", "getCredentialHash", "getCredentialRecord"},
          credentialId : TxCredentialIds]
    \cup [fn : {"verifyCredential"}, credentialId : TxCredentialIds, credentialHash : 0..2]
    \cup [fn : {"isAuthorizedIssuer"}, issuer : Addresses]

\* the function the call selects, applied to the storage, the sender, the time
\* of the block and the arguments
Execute(reg, ts, call) ==
    CASE call.fn = "anchorCredential" ->
             Registry_anchorCredential(reg, call.sender, ts, call.credentialId,
                                       call.credentialHash)
      [] call.fn = "batchAnchorCredentials" ->
             batchAnchorCredentials(reg, call.sender, ts, call.batch.credentialIds,
                                    call.batch.credentialHashes)
      [] call.fn = "revokeCredential" ->
             Registry_revokeCredential(reg, call.sender, ts, call.credentialId,
                                       "offboarding")
      [] call.fn = "authorizeIssuer" -> authorizeIssuer(reg, call.sender, call.issuer)
      [] call.fn = "revokeIssuerAuthorization" ->
             revokeIssuerAuthorization(reg, call.sender, call.issuer)
      [] call.fn \in {"pause", "unpause", "renounceOwnership"} ->
             OwnerCall(reg, call.sender, call.fn, "0x0")
      [] call.fn = "transferOwnership" ->
             OwnerCall(reg, call.sender, call.fn, call.newOwner)
      [] call.fn \in {"isCredentialRevoked", "getCredentialHash", "getCredentialRecord"} ->
             RecordView(reg, call.fn, call.credentialId, 0)
      [] call.fn = "verifyCredential" ->
             RecordView(reg, call.fn, call.credentialId, call.credentialHash)
      [] call.fn = "isAuthorizedIssuer" -> isAuthorizedIssuer(reg, call.issuer)

\* a transaction is mined, or a view is called: the storage and the answer
Transaction(call) ==
    LET result == Execute(registry, blockTimestamp, call)
    IN  /\ registry' = result.state
        /\ resp' = [op |-> call.fn, status |-> result.status, value |-> result.value]
        /\ UNCHANGED <<employees, credentials, accessLogs, chainCfg, issued, now,
                       requests, blockTimestamp>>

\* the next block
Mine ==
    /\ blockTimestamp < MaxBlockTime
    /\ blockTimestamp' = blockTimestamp + 1
    /\ UNCHANGED <<employees, credentials, accessLogs, chainCfg, issued, now, requests,
                   registry, resp>>

NextRegistry ==
    \/ \E call \in Calls : Transaction(call)
    \/ Mine

SpecRegistry == InitOffboard /\ [][NextRegistry]_vars

----------------------------------------------------------------------------
(* Claims about the registry.  What a transaction sent in the current state *)
(* would do is the contract function applied to the storage, the sender,    *)
(* the time of the block and the arguments, as Transaction applies it.      *)

\* C11: an identifier is anchored at most once.  A transaction that anchors an
\* identifier whose record exists, alone or as an item of a batch, reverts and
\* changes nothing, with "Credential already exists" when the caller and the
\* arguments pass the checks made before it; a successful anchoring writes the
\* hash sent, the sender and the time of the block; and no step removes a
\* record or changes the credentialHash, issuer or timestamp of one.
C11_AnchoredOnce ==
    /\ [](/\ \A s \in Accounts, c \in TxCredentialIds, h \in 0..2 :
                LET tx == Registry_anchorCredential(registry, s, blockTimestamp, c, h)
                    written == Record(tx.state, c)
                IN  /\ Record(registry, c).timestamp /= 0 =>
                          /\ tx.status /= "ok"
                          /\ tx.state = registry
                          /\ (onlyAuthorizedIssuer(registry, s) /\ ~registry.paused
                                  /\ h /= 0)
                                => tx.status = "Credential already exists"
                    /\ tx.status = "ok" =>
                          <<written.credentialHash, written.issuer, written.timestamp>>
                              = <<h, s, blockTimestamp>>
          /\ \A s \in Accounts, b \in BatchInputs :
                LET tx == batchAnchorCredentials(registry, s, blockTimestamp,
                                                 b.credentialIds, b.credentialHashes)
                    n == Len(b.credentialIds)
                    wellFormed ==
                        /\ n = Len(b.credentialHashes)
                        /\ n \in 1..BatchAnchorLimit
                        /\ \A i \in 1..n :
                              Len(b.credentialIds[i]) > 0 /\ b.credentialHashes[i] /= 0
                    duplicate ==
                        \/ \E i \in 1..n : Record(registry, b.credentialIds[i]).timestamp /= 0
                        \/ Cardinality({b.credentialIds[i] : i \in 1..n}) < n
                IN  duplicate =>
                       /\ tx.status /= "ok"
                       /\ tx.state = registry
                       /\ (onlyAuthorizedIssuer(registry, s) /\ ~registry.paused
                               /\ wellFormed)
                             => tx.status = "Credential already exists")
    /\ [][\/ registry' = registry
          \/ \A c \in DOMAIN registry.credentials :
                /\ registry.credentials[c].timestamp /= 0
                /\ c \in DOMAIN registry'.credentials
                /\ registry'.credentials[c].credentialHash
                       = registry.credentials[c].credentialHash
                /\ registry'.credentials[c].issuer = registry.credentials[c].issuer
                /\ registry'.credentials[c].timestamp
                       = registry.credentials[c].timestamp]_vars

\* a second anchoring of an identifier was turned down in a later block
C11_Witness ==
    /\ resp.op = "anchorCredential"
    /\ resp.status = "Credential already exists"
    /\ Record(registry, <<1>>).timestamp /= 0
    /\ blockTimestamp > Record(registry, <<1>>).timestamp

\* C12: on-chain revocation is monotonic and happens once.  revokeCredential
\* reverts with "Credential does not exist" on an identifier without a record
\* and with "Credential is already revoked" on a revoked record; a successful
\* revocation writes the reason, the time of the block and the caller; once
\* isRevoked is true no step makes it false or changes the revocationReason,
\* the revocationTimestamp or the revoker.
C12_RevokedOnceAndForAll ==
    /\ [](\A s \in Accounts, c \in TxCredentialIds :
             LET tx == Registry_revokeCredential(registry, s, blockTimestamp, c,
                                                 "offboarding")
                 written == Record(tx.state, c)
             IN  /\ Record(registry, c).timestamp = 0 =>
                       tx.status = "Credential does not exist" /\ tx.state = registry
                 /\ (Record(registry, c).timestamp /= 0 /\ Record(registry, c).isRevoked)
                       => /\ tx.status = "Credential is already revoked"
                          /\ tx.state = registry
                 /\ tx.status = "ok" =>
                       <<written.isRevoked, written.revocationReason,
                         written.revocationTimestamp, written.revoker>>
                           = <<TRUE, "offboarding", blockTimestamp, s>>)
    /\ [][\/ registry' = registry
          \/ \A c \in DOMAIN registry.credentials :
                registry.credentials[c].isRevoked =>
                    /\ c \in DOMAIN registry'.credentials
                    /\ registry'.credentials[c].isRevoked
                    /\ registry'.credentials[c].revocationReason
                           = registry.credentials[c].revocationReason
                    /\ registry'.credentials[c].revocationTimestamp
                           = registry.credentials[c].revocationTimestamp
                    /\ registry'.credentials[c].revoker
                           = registry.credentials[c].revoker]_vars

\* a revoked record was revoked again, in a later block, and turned down
C12_Witness ==
    /\ resp.op = "revokeCredential"
    /\ resp.status = "Credential is already revoked"
    /\ Record(registry, <<1>>).isRevoked
    /\ blockTimestamp > Record(registry, <<1>>).revocationTimestamp

\* C13: a record is created only by a caller that is, at the time of the
\* transaction, the owner or an address whose authorized-issuer flag is set,
\* and only while the contract is not paused.  While it is paused,
\* anchorCredential, batchAnchorCredentials and revokeCredential revert and
\* leave the storage unchanged, and isCredentialRevoked, getCredentialHash,
\* getCredentialRecord, verifyCredential and isAuthorizedIssuer answer as they
\* do when it is not paused.
C13_IssuersOnlyAndPause ==
    /\ [](/\ \A call \in Calls :
                call.fn \in {"anchorCredential", "batchAnchorCredentials",
                             "revokeCredential"} =>
                    LET tx == Execute(registry, blockTimestamp, call)
                    IN  /\ (tx.status = "ok" /\ call.fn /= "revokeCredential") =>
                              /\ \/ registry.authorizedIssuers[call.sender]
                                 \/ call.sender = registry.owner
                              /\ ~registry.paused
                        /\ registry.paused => tx.status /= "ok" /\ tx.state = registry
          /\ registry.paused =>
                LET lifted == [registry EXCEPT !.paused = FALSE]
                IN  /\ \A call \in Calls :
                          call.fn \in {"isCredentialRevoked", "getCredentialHash",
                                       "getCredentialRecord", "verifyCredential",
                                       "isAuthorizedIssuer"} =>
                              LET paused == Execute(registry, blockTimestamp, call)
                                  running == Execute(lifted, blockTimestamp, call)
                              IN  /\ paused.status = running.status
                                  /\ paused.value = running.value
                                  /\ paused.state = registry
                    /\ \A c \in DOMAIN registry.credentials :
                          /\ RecordView(registry, "isCredentialRevoked", c, 0).value
                                 = {registry.credentials[c].isRevoked}
                          /\ RecordView(registry, "getCredentialHash", c, 0).value
                                 = {registry.credentials[c].credentialHash}
                          /\ RecordView(registry, "getCredentialRecord", c, 0).value
                                 = {registry.credentials[c]}
                          /\ \A h \in 0..2 :
                                RecordView(registry, "verifyCredential", c, h).value
                                    = {/\ ~registry.credentials[c].isRevoked
                                       /\ registry.credentials[c].credentialHash = h}
                    /\ \A a \in Addresses :
                          isAuthorizedIssuer(registry, a).value
                              = {registry.authorizedIssuers[a] \/ a = registry.owner})
    /\ [][\/ registry' = registry
          \/ \A c \in DOMAIN registry'.credentials \ DOMAIN registry.credentials :
                /\ ~registry.paused
                /\ \/ registry.authorizedIssuers[registry'.credentials[c].issuer]
                   \/ registry'.credentials[c].issuer = registry.owner]_vars

\* the revocation of a record that exists and is not revoked, turned down
\* because the contract is paused
C13_Witness ==
    /\ registry.paused
    /\ resp.op = "revokeCredential"
    /\ resp.status = "Pausable: paused"
    /\ Record(registry, <<1>>).timestamp /= 0
    /\ ~Record(registry, <<1>>).isRevoked

C15_IssuerManagement ==
    /\ \A s \in Accounts, a \in Addresses :
          LET granted == authorizeIssuer(registry, s, a)
              removed == revokeIssuerAuthorization(registry, s, a)
          IN  /\ granted.status = "ok" =>
                    /\ s = registry.owner
                    /\ a /= "0x0"
                    /\ ~registry.authorizedIssuers[a]
                    /\ granted.state = [registry EXCEPT !.authorizedIssuers[a] = TRUE]
              /\ granted.status /= "ok" => granted.state = registry
              /\ (s /= registry.owner \/ a = "0x0" \/ registry.authorizedIssuers[a])
                    => granted.status /= "ok"
              /\ removed.status = "ok" =>
                    /\ s = registry.owner
                    /\ a /= registry.owner
                    /\ registry.authorizedIssuers[a]
                    /\ removed.state = [registry EXCEPT !.authorizedIssuers[a] = FALSE]
              /\ removed.status /= "ok" => removed.state = registry
              /\ (s /= registry.owner \/ a = registry.owner) => removed.status /= "ok"
    /\ isAuthorizedIssuer(registry, registry.owner).value = {TRUE}

\* the owner tried to remove its own authorization and was turned down
C15_Witness ==
    /\ resp.op = "revokeIssuerAuthorization"
    /\ resp.status = "Cannot revoke owner authorization"
    /\ registry.authorizedIssuers[registry.owner]

\* C16: batchAnchorCredentials is all-or-nothing.  It reverts when the arrays
\* differ in length, are empty or hold more than 50 items ("Too many
\* credentials"), and when an item has an empty identifier, a zero hash or an
\* identifier that has a record or comes twice in the batch; when it reverts
\* the storage is unchanged, and when it succeeds every item has the record
\* written for it, with the caller as issuer.
C16_BatchAllOrNothing ==
    \A s \in Accounts, b \in BatchInputs :
        LET tx == batchAnchorCredentials(registry, s, blockTimestamp,
                                         b.credentialIds, b.credentialHashes)
            n == Len(b.credentialIds)
            wellFormed ==
                /\ n = Len(b.credentialHashes)
                /\ n \in 1..BatchAnchorLimit
                /\ \A i \in 1..n :
                      Len(b.credentialIds[i]) > 0 /\ b.credentialHashes[i] /= 0
            duplicate ==
                \/ \E i \in 1..n : Record(registry, b.credentialIds[i]).timestamp /= 0
                \/ Cardinality({b.credentialIds[i] : i \in 1..n}) < n
        IN  /\ (~wellFormed \/ duplicate) => tx.status /= "ok"
            /\ (onlyAuthorizedIssuer(registry, s) /\ ~registry.paused
                    /\ n = Len(b.credentialHashes) /\ n > BatchAnchorLimit)
                  => tx.status = "Too many credentials"
            /\ tx.status /= "ok" => tx.state = registry
            /\ tx.status = "ok" =>
                  /\ \A i \in 1..n :
                        Record(tx.state, b.credentialIds[i])
                            = AnchoredRecord(s, blockTimestamp, b.credentialHashes[i])
                  /\ DOMAIN tx.state.credentials
                         = DOMAIN registry.credentials
                               \cup {b.credentialIds[i] : i \in 1..n}
            /\ (onlyAuthorizedIssuer(registry, s) /\ ~registry.paused /\ wellFormed
                    /\ ~duplicate)
                  => tx.status = "ok"

\* a batch whose second item has an empty identifier was turned down, and its
\* first item has no record
C16_Witness ==
    /\ resp.op = "batchAnchorCredentials"
    /\ resp.status = "Credential ID cannot be empty"
    /\ Record(registry, <<2>>).timestamp = 0

\* a batch of exactly 50 items went through
C16_WitnessFifty ==
    /\ resp.op = "batchAnchorCredentials"
    /\ resp.status = "ok"
    /\ Cardinality(DOMAIN registry.credentials) = BatchAnchorLimit

----------------------------------------------------------------------------
(* DID operations: DIDService (services/blockchainService.js, second half)  *)
(* and the serverless DID handler (part_008).  A DID is the sequence of its *)
(* characters.  The agent is the Veramo DID manager: what it answers is an  *)
(* input, and `reached` records the manager method that was called.         *)

MaxDidSuffix == 3

\* 'did:key', 'did:web', 'did:ethr' and a method the code does not name
DidMethod ==
    [key |-> <<"d", "i", "d", ":", "k", "e", "y">>,
     web |-> <<"d", "i", "d", ":", "w", "e", "b">>,
     ethr |-> <<"d", "i", "d", ":", "e", "t", "h", "r">>,
     jwk |-> <<"d", "i", "d", ":", "j", "w", "k">>]

\* String.prototype.startsWith
startsWith(str, prefix) ==
    Len(prefix) <= Len(str) /\ SubSeq(str, 1, Len(prefix)) = prefix

\* DIDService.updateDID(did, updates)
updateDID(did, updates, agentRejects) ==
    IF startsWith(did, DidMethod.ethr)
    THEN IF agentRejects
         THEN [threw |-> TRUE, error |-> "Failed to update DID: agent error",
               reached |-> {"didManagerUpdate"}]
         ELSE [threw |-> FALSE, error |-> "", reached |-> {"didManagerUpdate"}]
    ELSE IF startsWith(did, DidMethod.web)
    THEN [threw |-> TRUE,
          error |-> "Failed to update DID: Web DID updates not implemented yet",
          reached |-> {}]
    ELSE [threw |-> TRUE,
          error |-> "Failed to update DID: DID method does not support updates",
          reached |-> {}]

\* DIDService.revokeDID(did)
revokeDID(did, agentRejects) ==
    IF agentRejects
    THEN [threw |-> TRUE, error |-> "Failed to revoke DID: agent error",
          reached |-> {"didManagerDelete"}]
    ELSE [threw |-> FALSE, error |-> "", reached |-> {"didManagerDelete"}]

\* updateDID(agent, params) of the serverless handler, answered 200 or 500
Handler_updateDID(did, updates, agentRejects) ==
    IF startsWith(did, DidMethod.ethr)
    THEN IF agentRejects
         THEN [threw |-> TRUE, error |-> "agent error", reached |-> {"didManagerUpdate"}]
         ELSE [threw |-> FALSE, error |-> "", reached |-> {"didManagerUpdate"}]
    ELSE [threw |-> TRUE, error |-> "DID method does not support updates",
          reached |-> {}]

\* the call to make: which operation, on which DID did:<method>:<k>, with which
\* update, and whether the agent rejects
InitDid ==
    /\ employees = EmptyTable
    /\ credentials = EmptyTable
    /\ accessLogs = << >>
    /\ chainCfg \in BOOLEAN
    /\ issued = << >>
    /\ now = 0
    /\ requests = << >>
    /\ registry = constructor("0xA")
    /\ blockTimestamp = 1
    /\ resp \in [op : {"ask"},
                 call : {"updateDID", "revokeDID", "handler.updateDID"},
                 did : {DidMethod[method] \o <<":", k>> :
                           method \in DOMAIN DidMethod, k \in 1..MaxDidSuffix},
                 updates : {"service-endpoint", "new-key"},
                 agentRejects : BOOLEAN]

UpdateDid ==
    /\ resp.op = "ask"
    /\ resp.call = "updateDID"
    /\ resp' = [op |-> "updateDID", did |-> resp.did,
                result |-> updateDID(resp.did, resp.updates, resp.agentRejects)]
    /\ UNCHANGED <<employees, credentials, accessLogs, chainCfg, registry,
                   blockTimestamp, issued, now, requests>>

RevokeDid ==
    /\ resp.op = "ask"
    /\ resp.call = "revokeDID"
    /\ resp' = [op |-> "revokeDID", did |-> resp.did,
                result |-> revokeDID(resp.did, resp.agentRejects)]
    /\ UNCHANGED <<employees, credentials, accessLogs, chainCfg, registry,
                   blockTimestamp, issued, now, requests>>

HandlerUpdateDid ==
    /\ resp.op = "ask"
    /\ resp.call = "handler.updateDID"
    /\ resp' = [op |-> "handler.updateDID", did |-> resp.did,
                result |-> Handler_updateDID(resp.did, resp.updates, resp.agentRejects)]
    /\ UNCHANGED <<employees, credentials, accessLogs, chainCfg, registry,
                   blockTimestamp, issued, now, requests>>

NextDid == UpdateDid \/ RevokeDid \/ HandlerUpdateDid

SpecDid == InitDid /\ [][NextDid]_vars

\* C17: the DID method rules are enforced: updateDID on a did:key or a did:web
\* identifier fails, revokeDID on a did:key identifier fails with an
\* unsupported-operation error, none of these calls reaches the DID manager or
\* succeeds, and an update that succeeds is of a did:ethr identifier.
C17_MethodRulesEnforced ==
    resp.op \in {"updateDID", "revokeDID", "handler.updateDID"} =>
        /\ (resp.op \in {"updateDID", "handler.updateDID"}
                /\ (\/ startsWith(resp.did, DidMethod.key)
                    \/ startsWith(resp.did, DidMethod.web)))
              => resp.result.threw /\ resp.result.reached = {}
        /\ (resp.op \in {"updateDID", "handler.updateDID"} /\ ~resp.result.threw)
              => startsWith(resp.did, DidMethod.ethr)
        /\ (resp.op = "revokeDID" /\ startsWith(resp.did, DidMethod.key))
              => resp.result.threw /\ resp.result.reached = {}

----------------------------------------------------------------------------
(* Issuance and the chain *)

\* C19: a failure of the anchoring never fails the issuance.  Whatever the
\* anchoring transaction does, issueEmployeeCredential and
\* issueAccessCredential, when signing and storing succeed, return the signed
\* credential, and the metadata is stored with status active: it is stored
\* before the anchoring is attempted.
C19_AnchorFailureSwallowed ==
    Len(issued) < MaxCredentials =>
        \A o \in ChainOutcomes :
            /\ \A d \in EmployeePayloads(EmployeeIds) :
                  LET r == issueEmployeeCredential(credentials, WithDid(d), now,
                                                   Len(issued) + 1, NextUuid, "none",
                                                   chainCfg, o)
                  IN  /\ ~r.threw
                      /\ r.value.credential
                             = EmployeeCredential(WithDid(d), now, Len(issued) + 1)
                      /\ r.value.credentialId \in DOMAIN r.table
                      /\ Prop(r.table[r.value.credentialId], "status") = {"active"}
            /\ \A e \in EmployeeIds, a \in AccessPayloads :
                  getEmployee(employees, e) /= {} =>
                      LET r == issueAccessCredential(employees, credentials, e, a, now,
                                                     Len(issued) + 1, NextUuid, "none",
                                                     chainCfg, o)
                      IN  /\ ~r.threw
                          /\ r.value.credential
                                 = AccessCredential(e, a, now, Len(issued) + 1)
                          /\ r.value.credentialId \in DOMAIN r.table
                          /\ Prop(r.table[r.value.credentialId], "status") = {"active"}

\* with a contract configured the anchoring failed and was logged; the request
\* was answered 201 and the metadata of the credential is stored as active
C19_Witness ==
    /\ chainCfg
    /\ resp.op \in {"createEmployee", "issueAccess"}
    /\ resp.status = 201
    /\ Len(issued) > 0
    /\ issued[Len(issued)].anchoring = "logged"
    /\ Prop(credentials[issued[Len(issued)].credentialId], "status") = {"active"}

----------------------------------------------------------------------------
(* The blockchain service called directly, services/blockchainService.js.  *)
(* null is "null"; a receipt, a hash and an estimate are their names.      *)

\* what anchorCredential returns: null, a receipt, or it throws
anchorCredentialReturn(cfg, credentialId, outcome) ==
    IF ~cfg THEN "null"
    ELSE IF anchorCredential(cfg, credentialId, outcome) THEN "throws" ELSE "receipt"

\* what recordRevocation returns: null, a receipt, or it throws
recordRevocationReturn(cfg, credentialId, outcome) ==
    IF ~cfg THEN "null"
    ELSE IF recordRevocation(cfg, credentialId, outcome) THEN "throws" ELSE "receipt"

\* isCredentialRevoked(credentialId): the contract's answer, false on any error
Chain_isCredentialRevoked(cfg, credentialId, outcome, onChain) ==
    IF ~cfg THEN FALSE
    ELSE IF credentialId = Undefined \/ outcome = "failed" THEN FALSE
    ELSE onChain

\* getCredentialHash(credentialId): the contract's answer, null on any error
Chain_getCredentialHash(cfg, credentialId, outcome) ==
    IF ~cfg THEN "null"
    ELSE IF credentialId = Undefined \/ outcome = "failed" THEN "null"
    ELSE "hash"

\* estimateGasCost(operation, ...args)
estimateGasCost(cfg, operation, outcome) ==
    IF ~cfg THEN "null"
    ELSE IF operation \notin {"anchorCredential", "revokeCredential"} THEN "null"
    ELSE IF outcome = "failed" THEN "null"
    ELSE "estimate"

\* a method of the service is called: whether it threw, what it returned, and
\* whether it submitted a transaction
ChainCall(fn, arg, outcome, onChain) ==
    /\ resp' =
          [op |-> fn,
           threw |-> CASE fn = "chain.anchorCredential" ->
                              anchorCredential(chainCfg, arg, outcome)
                       [] fn = "chain.recordRevocation" ->
                              recordRevocation(chainCfg, arg, outcome)
                       [] OTHER -> FALSE,
           value |-> CASE fn = "chain.anchorCredential" ->
                              anchorCredentialReturn(chainCfg, arg, outcome)
                       [] fn = "chain.recordRevocation" ->
                              recordRevocationReturn(chainCfg, arg, outcome)
                       [] fn = "chain.isCredentialRevoked" ->
                              Chain_isCredentialRevoked(chainCfg, arg, outcome, onChain)
                       [] fn = "chain.getCredentialHash" ->
                              Chain_getCredentialHash(chainCfg, arg, outcome)
                       [] fn = "chain.estimateGasCost" ->
                              estimateGasCost(chainCfg, arg, outcome),
           sent |-> /\ fn \in {"chain.anchorCredential", "chain.recordRevocation"}
                    /\ chainCfg
                    /\ arg /= Undefined]
    /\ UNCHANGED <<employees, credentials, accessLogs, chainCfg, registry,
                   blockTimestamp, issued, now, requests>>

\* issuing, revoking, and the blockchain service called on its own
NextChain ==
    \/ \E d \in EmployeePayloads({"e1"}), f \in {"none", "anchor"} :
          Len(issued) < MaxCredentials /\ PostEmployee(d, f)
    \/ \E a \in AccessPayloads, f \in {"none", "anchor"} :
          Len(issued) < MaxCredentials /\ PostAccessCredential("e1", a, f)
    \/ \E c \in CredentialIdInputs, r \in Reasons, sf \in BOOLEAN, o \in ChainOutcomes :
          RevokeCredential(c, r, sf, o)
    \/ \E fn \in {"chain.anchorCredential", "chain.recordRevocation",
                  "chain.isCredentialRevoked", "chain.getCredentialHash"},
          c \in CredentialIdInputs \cup {Undefined}, o \in ChainOutcomes, v \in BOOLEAN :
          ChainCall(fn, c, o, v)
    \/ \E g \in {"anchorCredential", "revokeCredential", "other"}, o \in ChainOutcomes :
          ChainCall("chain.estimateGasCost", g, o, FALSE)

SpecChain == Init /\ [][NextChain]_vars

\* C18: without a contract every on-chain operation is a no-op that returns
\* without error and submits nothing: anchorCredential, recordRevocation,
\* getCredentialHash and estimateGasCost return null and isCredentialRevoked
\* returns false; issuing and revoking then succeed as they do when the chain
\* step succeeds.
C18_NoContractNoOp ==
    ~chainCfg =>
        /\ resp.op \in {"chain.anchorCredential", "chain.recordRevocation",
                        "chain.getCredentialHash", "chain.estimateGasCost"}
              => ~resp.threw /\ resp.value = "null" /\ ~resp.sent
        /\ resp.op = "chain.isCredentialRevoked"
              => ~resp.threw /\ resp.value = FALSE /\ ~resp.sent
        /\ \A c \in CredentialIdInputs, r \in Reasons, sf \in BOOLEAN, o \in ChainOutcomes :
              revokeCredential(credentials, chainCfg, c, r, sf, o)
                  = revokeCredential(credentials, TRUE, c, r, sf, "mined")
        /\ \A k \in 1..Len(issued) : issued[k].anchoring = "anchored"
        /\ Len(issued) < MaxCredentials =>
              \A o \in ChainOutcomes, d \in EmployeePayloads({"e1"}) :
                  LET r == issueEmployeeCredential(credentials, WithDid(d), now,
                                                   Len(issued) + 1, NextUuid, "none",
                                                   chainCfg, o)
                  IN  /\ ~r.threw
                      /\ r.value.credential
                             = EmployeeCredential(WithDid(d), now, Len(issued) + 1)
                      /\ Prop(r.table[r.value.credentialId], "status") = {"active"}
                      /\ r.value.anchoring = "anchored"

\* without a contract a credential was issued and then revoked, and the
\* revocation returned
C18_Witness ==
    /\ ~chainCfg
    /\ resp.op = "revoke"
    /\ ~resp.threw
    /\ \E k \in 1..Len(issued) : issued[k].credentialId = resp.credentialId
    /\ Prop(credentials[resp.credentialId], "status") = {"revoked"}

\* recordRevocation without a contract returned null
C18_WitnessNull ==
    /\ ~chainCfg
    /\ resp.op = "chain.recordRevocation"
    /\ resp.value = "null"

----------------------------------------------------------------------------
(* Revocation and offboarding when only the chain can fail *)

\* the stores answer every request; a revocation fails, if at all, in
\* recordRevocation
NextChainFailure ==
    \/ \E d \in EmployeePayloads(EmployeeIds) :
          Len(issued) < MaxOffboardCredentials /\ PostEmployee(d, "none")
    \/ \E e \in EmployeeIds :
          /\ Len(issued) < MaxOffboardCredentials
          /\ PostAccessCredential(e, [accessType |-> "github",
                                      permissions |-> {"code_access"},
                                      validUntil |-> MaxTime], "none")
    \/ \E c \in DOMAIN credentials, o \in ChainOutcomes :
          RevokeCredential(c, Undefined, FALSE, o)
    \/ \E e \in DOMAIN employees, r \in Reasons :
          \E cf \in SUBSET CredentialsOf(e) : DeleteEmployee(e, r, "none", {}, cf)

SpecChainFailure == InitOffboard /\ [][NextChainFailure]_vars

\* C20: a failure of the on-chain revocation step never blocks the local
\* transition.  After revokeCredential the credential is stored as revoked,
\* whether recordRevocation failed or not; after an offboarding in which
\* recordRevocation failed for some credentials, every credential of the
\* employee is stored as revoked and the employee is inactive.
C20_ChainFailureNeverBlocks ==
    /\ resp.op = "revoke" =>
          Prop(credentials[resp.credentialId], "status") = {"revoked"}
    /\ resp.op = "offboard" =>
          /\ \A c \in CredentialsOf(resp.employeeId) :
                Prop(credentials[c], "status") = {"revoked"}
          /\ Prop(employees[resp.employeeId], "status") = {"inactive"}

----------------------------------------------------------------------------
(* The API boundary: POST /employees behind the middleware and its        *)
(* validators (employeeController.js), POST /verify/credential            *)
(* (verificationController.js), and the expiration of what is issued.     *)
(* The clock counts whole days.                                           *)

\* calculateExpirationDate(contractType = 'permanent') of the serverless
\* credential handler, part_009
Handler_calculateExpirationDate(contractType, t) ==
    CASE contractType = "temporary" -> t + TemporaryDays
      [] contractType = "contract"  -> t + ContractDays
      [] OTHER                      -> t + PermanentDays

\* req.body of POST /employees: a body that passes validateEmployee, with
\* each contract type and with none, and bodies that fail one validator
EmployeeBodies ==
    LET valid == [employeeId |-> "e1", name |-> "Ann", email |-> "ann@example.com",
                  department |-> "eng", role |-> "engineer",
                  accessLevel |-> "standard", permissions |-> {"code_access"}]
    IN  {valid}
        \cup {Spread(valid, [contractType |-> ct]) : ct \in ContractTypes \ {Undefined}}
        \cup {Spread(valid, [employeeId |-> "e2", name |-> ""]),
              Spread(valid, [employeeId |-> "e2", email |-> "ann"]),
              Spread(valid, [employeeId |-> "e2", role |-> ""]),
              Spread(valid, [employeeId |-> "e2", accessLevel |-> "root"]),
              [employeeId |-> "e2", name |-> "Bob", email |-> "bob@example.com",
               role |-> "engineer", accessLevel |-> "basic"]}

PostEmployeeRequestMutant(header, body, fault) ==
    LET auth == authMiddleware(header)
        role == requireRole({"admin", "hr"}, auth.user)
        created == createEmployee(employees, WithDid(body), now, FALSE)
    IN  /\ employees' = IF auth.next /\ role.next THEN created.table ELSE employees
        /\ resp' = [op |-> "createEmployee",
                    status |-> IF ~auth.next THEN auth.status
                               ELSE IF ~role.next THEN role.status ELSE 400,
                    employeeId |-> body.employeeId]
        /\ UNCHANGED <<credentials, issued, accessLogs, chainCfg, registry,
                       blockTimestamp, now, requests>>

\* POST /employees through authMiddleware, requireRole(['admin', 'hr']) and
\* validateEmployee: notEmpty on name, department and role, isEmail on
\* email, isIn(['basic', 'standard', 'admin']) on accessLevel
PostEmployeeRequest(header, body, fault) ==
    LET auth == authMiddleware(header)
        role == requireRole({"admin", "hr"}, auth.user)
        errors ==
            {f \in {"name", "department", "role"} : Prop(body, f) \subseteq {""}}
            \cup {f \in {"email"} :
                     Prop(body, f) \cap {"ann@example.com", "bob@example.com"} = {}}
            \cup {f \in {"accessLevel"} :
                     Prop(body, f) \cap {"basic", "standard", "admin"} = {}}
        refused(status) ==
            /\ resp' = [op |-> "createEmployee", status |-> status,
                        employeeId |-> body.employeeId]
            /\ UNCHANGED <<employees, credentials, issued, accessLogs, chainCfg,
                           registry, blockTimestamp, now, requests>>
    IN  IF ~auth.next THEN refused(auth.status)
        ELSE IF ~role.next THEN refused(role.status)
        ELSE IF errors /= {} THEN refused(400)
        ELSE PostEmployee(body, fault)

\* POST /verify/credential
PostVerifyCredential(presented, lib, lookupFail, logFail) ==
    LET verification == verifyCredential(credentials, presented, lib, now, lookupFail)
        answer(status, logged) ==
            [op |-> "verifyCredential", status |-> status, lib |-> lib,
             parsed |-> ~verification.threw /\ verification.credential /= {},
             verified |-> verification.verified,
             logFail |-> logFail, logged |-> logged]
    IN  /\ lib = "verified" => presented \notin {Malformed, NoCredential}
        /\ IF presented = NoCredential \/ verification.threw
           THEN /\ resp' = answer(400, FALSE)
                /\ UNCHANGED accessLogs
           ELSE IF verification.credential = {}
           THEN /\ resp' = answer(200, FALSE)
                /\ UNCHANGED accessLogs
           ELSE IF logFail
           THEN /\ resp' = answer(400, FALSE)
                /\ UNCHANGED accessLogs
           ELSE /\ accessLogs' = logAccess(accessLogs,
                       [employeeId |-> presented.credentialSubject.employeeId,
                        action |-> "credential_verification",
                        verifierApp |-> "user-agent",
                        success |-> verification.verified,
                        credentialType |-> presented.type])
                /\ resp' = answer(200, TRUE)
        /\ UNCHANGED <<employees, credentials, chainCfg, registry, blockTimestamp,
                       issued, now, requests>>

\* onboarding with each contract type, issuing access credentials, and the
\* passing of days
NextExpiration ==
    \/ \E h \in Headers, b \in EmployeeBodies :
          Len(issued) < MaxCredentials /\ PostEmployeeRequest(h, b, "none")
    \/ \E a \in AccessPayloads :
          Len(issued) < MaxCredentials /\ PostAccessCredential("e1", a, "none")
    \/ Tick

SpecExpiration == Init /\ [][NextExpiration]_vars

\* C21: an employee credential expires 90 days after issuance for the
\* contract type temporary, 365 days for contract and 5 * 365 days for
\* permanent, for a missing and for an unrecognised type; the serverless
\* handler computes the same date; an access credential expires at the
\* validUntil of its request.
C21_ExpirationFollowsContractType ==
    LET days(ct) == CASE ct = "temporary" -> 90 [] ct = "contract" -> 365 [] OTHER -> 1825
        contractType(b) == IF Prop(b, "contractType") = {} THEN "permanent" ELSE b.contractType
    IN  /\ \A b \in EmployeeBodies, o \in ChainOutcomes :
            LET r == issueEmployeeCredential(credentials, WithDid(b), now, "p", NextUuid, "none", chainCfg, o)
            IN  /\ ~r.threw
                /\ r.value.credential.expirationDate = now + days(contractType(b))
                /\ Handler_calculateExpirationDate(contractType(b), now)
                       = r.value.credential.expirationDate
        /\ \A ct \in ContractTypes \ {Undefined} :
               calculateExpirationDate(ct, now) = Handler_calculateExpirationDate(ct, now)
        /\ \A e \in DOMAIN employees, a \in AccessPayloads, o \in ChainOutcomes :
            LET r == issueAccessCredential(employees, credentials, e, a, now, "p", NextUuid, "none", chainCfg, o)
            IN  ~r.threw /\ r.value.credential.expirationDate = a.validUntil
        /\ \A k \in DOMAIN issued :
               issued[k].credential.type = "EmployeeCredential"
                   => \E ct \in ContractTypes : issued[k].credential.expirationDate
                          \in {t + days(ct) : t \in Times}

\* a temporary employee was onboarded on day 1 and holds a credential that
\* expires on day 91, next to an access credential issued later
C21_WitnessTemporary ==
    /\ "e1" \in DOMAIN employees
    /\ Prop(employees["e1"], "contractType") = {"temporary"}
    /\ \E k \in DOMAIN issued :
          /\ issued[k].credential.type = "EmployeeCredential"
          /\ issued[k].credential.expirationDate = 1 + 90
    /\ \E k \in DOMAIN issued : issued[k].credential.type = "AccessCredential"

\* the requests that reach the boundary: onboarding with any header and body,
\* the routes behind the middleware, and the public verification routes
NextBoundary ==
    \/ \E h \in Headers, b \in {x \in EmployeeBodies : "contractType" \notin DOMAIN x} :
          Len(issued) < MaxCredentials /\ PostEmployeeRequest(h, b, "none")
    \/ \E route \in Routes, h \in Headers :
          route.mount = "/api/employees" /\ Request(route, h, "e1", FALSE)
    \/ \E p \in Presentable \cup {NoCredential}, r \in AccessRequired, l \in LibOutcomes :
          Len(accessLogs) < MaxLogs /\ PostAccess("github", p, r, l, FALSE)
    \/ \E p \in Presentable \cup {NoCredential}, l \in LibOutcomes, lf \in BOOLEAN :
          Len(accessLogs) < MaxLogs /\ PostVerifyCredential(p, l, FALSE, lf)

SpecBoundary == Init /\ [][NextBoundary]_vars

\* C22: a request answered 400, 401 or 403 has written no employee record
\* (and with it no DID), no credential record and no chain transaction; the
\* one access-log entry such a request appends is the access_denied entry
\* POST /verify/access/:appName writes before it answers 401 or 403.
C22_RefusedRequestsWriteOnlyTheDenialLog ==
    [][Prop(resp', "status") \cap {400, 401, 403} /= {}
          => /\ UNCHANGED <<employees, credentials, issued, registry, chainCfg>>
             /\ \/ UNCHANGED accessLogs
                \/ /\ resp'.op = "access"
                   /\ resp'.status \in {401, 403}
                   /\ Len(accessLogs') = Len(accessLogs) + 1
                   /\ SubSeq(accessLogs', 1, Len(accessLogs)) = accessLogs
                   /\ accessLogs'[Len(accessLogs')].action = "access_denied"]_vars

\* POST /verify/access/github was answered 403 for the credential of an
\* onboarded employee, after the denial was logged
C22_WitnessDeniedAndLogged ==
    /\ resp.op = "access"
    /\ resp.status = 403
    /\ "e1" \in DOMAIN employees
    /\ Len(accessLogs) = resp.logsBefore + 1
    /\ accessLogs[Len(accessLogs)].action = "access_denied"
    /\ accessLogs[Len(accessLogs)].employeeId = "e1"

\* C22 as stated: a request answered 400, 401 or 403 has appended no
\* access-log entry either
C22_RefusedRequestsHaveNoSideEffect ==
    [][Prop(resp', "status") \cap {400, 401, 403} /= {}
          => UNCHANGED <<employees, credentials, issued, registry, chainCfg,
                         accessLogs>>]_vars

\* C24: POST /verify/credential appends a credential_verification entry,
\* its success flag the verified result, exactly when verification produced
\* a parsed credential; it answers 400 and appends nothing when the input
\* is malformed or verification throws; and a failure to write the entry is
\* not answered as an invalid credential (400).
C24_LogFailureIsNotAnInvalidCredential ==
    resp.op = "verifyCredential"
        => /\ ~resp.logFail => (resp.logged <=> resp.parsed)
           /\ resp.logged => /\ accessLogs /= << >>
                             /\ LastEntry.action = "credential_verification"
                             /\ LastEntry.success = resp.verified
           /\ resp.lib = "throws" => resp.status = 400 /\ ~resp.logged
           /\ (resp.parsed /\ resp.logFail) => resp.status /= 400

----------------------------------------------------------------------------
(* The life of an employee and its credentials: onboarding, updates,       *)
(* access credentials, revocation and offboarding, employeeController.js;  *)
(* and the verify and revoke actions of the serverless credential          *)
(* handler, part_009.                                                      *)

\* PUT /employees/:employeeId.  updateEmployee returns result.Attributes of
\* an UpdateCommand with ReturnValues ALL_NEW, which is never undefined: the
\* 404 branch is not reached.  `updates.role || updates.accessLevel ||
\* updates.permissions` is a test of truthiness: '' fails it, and the array
\* of permissions passes it even when empty.
PutEmployee(employeeId, body, fault) ==
    LET updates == [f \in DOMAIN body \ {"employeeId", "did", "createdAt"} |-> body[f]]
        updated == updateEmployee(employees, employeeId, updates, fault = "update")
        truthy(f) == /\ f \in DOMAIN updates
                     /\ f = "permissions" \/ updates[f] \notin {"", Undefined}
        cred == issueEmployeeCredential(credentials, updated.value, now, Len(issued) + 1,
                                        NextUuid, fault, chainCfg,
                                        IF fault = "anchor" THEN "failed" ELSE "mined")
        answer(status, new) ==
            [op |-> "updateEmployee", status |-> status, employeeId |-> employeeId,
             touched |-> DOMAIN updates \cap {"role", "accessLevel", "permissions"} /= {},
             newCredential |-> new]
    IN  /\ IF updated.threw
           THEN /\ resp' = answer(500, FALSE)
                /\ UNCHANGED <<employees, credentials, issued>>
           ELSE /\ employees' = updated.table
                /\ IF ~(truthy("role") \/ truthy("accessLevel") \/ truthy("permissions"))
                   THEN /\ resp' = answer(200, FALSE)
                        /\ UNCHANGED <<credentials, issued>>
                   ELSE /\ credentials' = cred.table
                        /\ IF cred.threw
                           THEN /\ resp' = answer(500, FALSE)
                                /\ UNCHANGED issued
                           ELSE /\ resp' = answer(200, TRUE)
                                /\ issued' = Append(issued, cred.value)
        /\ UNCHANGED <<accessLogs, chainCfg, registry, blockTimestamp, now, requests>>

\* verifyCredential(agent, params) of the serverless handler: the stored
\* status is read only for a credential that carries an id, and a failed
\* read is not caught
Handler_verifyCredential(tbl, presented, lib, t, lookupFail) ==
    LET credentialId == IF lib = "verified" THEN CredentialIdOf(presented) ELSE Undefined
        result == getCredential(tbl, credentialId, lookupFail)
        isRevoked == /\ credentialId /= Undefined
                     /\ \E item \in result.value : Prop(item, "status") = {"revoked"}
        isExpired == lib = "verified" /\ isCredentialExpired(presented, t)
    IN  IF lib = "throws" \/ (credentialId /= Undefined /\ result.threw)
        THEN [threw |-> TRUE, verified |-> FALSE, credential |-> {}]
        ELSE [threw |-> FALSE,
              verified |-> lib = "verified" /\ ~isRevoked /\ ~isExpired,
              credential |-> IF lib = "verified" THEN {presented} ELSE {}]

\* revokeCredential(params) of the serverless handler: the on-chain step
\* is tried and its failure is logged
Handler_revokeCredential(tbl, cfg, credentialId, reason, storeFail, outcome) ==
    LET why == IF reason = Undefined THEN "No reason provided" ELSE reason
    IN  IF storeFail \/ ~ValidKey(credentialId) THEN Threw(tbl)
        ELSE LET new == UpdateItem(tbl, credentialId, "credentialId",
                                   [status |-> "revoked", revocationReason |-> why])
             IN  Returned(new, new[credentialId])

\* one employee is onboarded, updated, given access credentials and
\* offboarded, its credentials are revoked and verified; e2 is never
\* onboarded
NextLifecycle ==
    \/ \E d \in EmployeePayloads({"e1"}) :
          Len(issued) < MaxCredentials /\ PostEmployee(d, "none")
    \/ \E e \in EmployeeIds,
          body \in {[accessLevel |-> "admin"], [accessLevel |-> ""],
                    [employeeId |-> "e2", did |-> "did:key:other", createdAt |-> MaxTime + 1]},
          f \in {"none", "update"} :
          Len(issued) < MaxCredentials /\ PutEmployee(e, body, f)
    \/ \E a \in AccessPayloads :
          Len(issued) < MaxCredentials /\ PostAccessCredential("e1", a, "none")
    \/ \E e \in EmployeeIds : DeleteEmployee(e, Undefined, "none", {}, {})
    \/ \E c \in DOMAIN credentials \cup {UnknownCredentialId}, o \in ChainOutcomes :
          RevokeCredential(c, Undefined, FALSE, o)
    \/ \E p \in Presentable \ {Malformed} : VerifyCredential(p, "verified", FALSE)

SpecLifecycle == Init /\ [][NextLifecycle]_vars

\* C23: PUT /employees/:employeeId leaves the employeeId, did and createdAt
\* of every stored employee as they were written at creation, whatever the
\* payload names, and issues a new employee credential exactly when the
\* payload touches role, accessLevel or permissions.
C23_ImmutableAndReissuedWhenTouched ==
    [][/\ \A e \in DOMAIN employees :
              /\ e \in DOMAIN employees'
              /\ \A f \in {"employeeId", "did", "createdAt"} :
                    Prop(employees'[e], f) = Prop(employees[e], f)
       /\ (resp'.op = "updateEmployee" /\ resp'.status = 200)
              => /\ resp'.newCredential <=> resp'.touched
                 /\ resp'.newCredential <=> Len(issued') = Len(issued) + 1]_vars

\* C25: updateEmployee and updateCredentialStatus called with an identifier
\* that has no stored record return an absent result and add no record; so
\* every stored employee was created by the onboarding, with a did and a
\* creation time, and every stored credential was stored by an issuance,
\* with its employee and type.
C25_UpdatesCreateNoRecord ==
    /\ \A e \in DOMAIN employees : {"did", "createdAt"} \subseteq DOMAIN employees[e]
    /\ \A c \in DOMAIN credentials : {"employeeId", "type"} \subseteq DOMAIN credentials[c]
    /\ \A e \in EmployeeIds \ DOMAIN employees :
          e \notin DOMAIN updateEmployee(employees, e, [status |-> "inactive"], FALSE).table
    /\ UnknownCredentialId \notin DOMAIN credentials
          => UnknownCredentialId \notin
                DOMAIN updateCredentialStatus(credentials, UnknownCredentialId, "revoked",
                                              Undefined, FALSE).table

\* C26: from the same stored metadata and chain configuration, with the
\* same input and the same outcome of the lookup and of the on-chain step,
\* the verify and revoke actions of the serverless handler and the
\* service's verifyCredential and revokeCredential both throw or both
\* return, with the same verified flag and the same stored status.
C26_HandlerEqualsService ==
    /\ \A p \in Presentable \ {Malformed}, l \in LibOutcomes, lf \in BOOLEAN :
          LET service == verifyCredential(credentials, p, l, now, lf)
              handler == Handler_verifyCredential(credentials, p, l, now, lf)
          IN  service.threw = handler.threw /\ service.verified = handler.verified
    /\ \A c \in DOMAIN credentials, sf \in BOOLEAN, o \in ChainOutcomes :
          LET service == revokeCredential(credentials, chainCfg, c, Undefined, sf, o)
              handler == Handler_revokeCredential(credentials, chainCfg, c, Undefined, sf, o)
          IN  /\ service.threw = handler.threw
              /\ service.table[c].status = handler.table[c].status

\* C27: a credential record is created with status active, and the only
\* change any operation makes to a stored status is from active to revoked:
\* no revoked credential is active again.
C27_StatusIsMonotonic ==
    [][\A c \in DOMAIN credentials' :
          IF c \in DOMAIN credentials
          THEN \/ credentials'[c].status = credentials[c].status
               \/ credentials[c].status = "active" /\ credentials'[c].status = "revoked"
          ELSE credentials'[c].status = "active"]_vars

\* C28: an onboarded employee whose stored status is inactive has no
\* credential whose stored status is active.
C28_InactiveHoldsNoActiveCredential ==
    \A e \in DOMAIN employees :
        ("createdAt" \in DOMAIN employees[e] /\ Prop(employees[e], "status") = {"inactive"})
            => \A c \in DOMAIN credentials :
                  Prop(credentials[c], "employeeId") = {e}
                      => credentials[c].status /= "active"

\* C29: for every credential the service issued, the identifier its
\* metadata is stored under is the identifier the credential carries, which
\* is the one passed to the on-chain anchorCredential and the one
\* verifyCredential looks the revocation up under.
C29_OneIdentifierThroughout ==
    \A k \in DOMAIN issued :
        /\ issued[k].credentialId \in DOMAIN credentials
        /\ CredentialIdOf(issued[k].credential) = issued[k].credentialId
        /\ chainCfg => issued[k].anchoring = "anchored"

\* C30: once a newer employee credential was issued to an employee, no
\* older employee credential of that employee is verified.
C30_ReissuanceSupersedes ==
    \A j, k \in DOMAIN issued :
        (/\ j < k
         /\ issued[j].credential.type = "EmployeeCredential"
         /\ issued[k].credential.type = "EmployeeCredential"
         /\ issued[j].credential.credentialSubject.employeeId
               = issued[k].credential.credentialSubject.employeeId)
            => ~verifyCredential(credentials, issued[j].credential, "verified", now, FALSE).verified

============================================================================
